---- MODULE Spec2Model ----
(***************************************************************************)
(* NetEvo (libnetevo): a model of the simulated-annealing supervisor       *)
(* EvolveSA (evolve_sa.cc), of EvolveSA::performance, of the simulate      *)
(* entry points of the four simulators (simulate.cc) and of the System     *)
(* class (system.cc): its structure, state ids, keys, dynamics registry    *)
(* and GML files.                                                          *)
(*                                                                         *)
(* The specifications share the variables:                                 *)
(*   SpecEvolve  one run of EvolveSA::evolve, one action per loop step     *)
(*   SpecPerf    one call of EvolveSA::performance                         *)
(*   SpecSim     calls of Simulate*::simulate on a small System            *)
(*   SpecIds     structure changes of a System and refreshStateIDs         *)
(*   SpecReg     the registry of node and arc dynamics                     *)
(*   SpecKeys    node keys                                                 *)
(*   SpecGML     saveToGML of one System, openFromGML into another         *)
(*   SpecCopy    copySystem from the Systems of the examples               *)
(*   SpecRandom  randomGraph                                               *)
(*   SpecSet     the hooks of ChangeLogSet                                 *)
(*   SpecStream  the hooks of ChangeLogToStream                            *)
(*   SpecTrial   trials of the cooling loop at temperatures around zero    *)
(*   SpecDesc    the lifetime of the dynamics descriptors                  *)
(*   SpecEvoLog  evolve with a mutator that reports to the change log      *)
(* The variables of the other parts keep their initial value.              *)
(***************************************************************************)
EXTENDS Integers, Sequences, FiniteSets, TLC

(***************************************************************************)
(* Bounds of the model.                                                    *)
(***************************************************************************)
NumNodes           == 4   \* nodes of the evolved graph
MaxRewires         == 1   \* MyMutate clamps numOfRewires to 1..10; here 1..MaxRewires
MaxInitialTrials   == 2   \* initialTrials   in 0..MaxInitialTrials
MaxMainTrials      == 2   \* mainTrials      in 0..MaxMainTrials
MaxAcceptTrials    == 2   \* acceptTrials    in 1..MaxAcceptTrials
MaxRunsNoChange    == 1   \* acceptRunsNoChange in 0..MaxRunsNoChange
MaxIterationsBound == 2   \* maxIterations   in 1..MaxIterationsBound
MaxCool            == 6   \* cooling steps followed exactly
MaxChanged         == 2   \* fields of EvolveSAParams the caller changes
RndLevels          == 2   \* mParams.rnd() is one of 0/RndLevels .. (RndLevels-1)/RndLevels

Nodes == 1..NumNodes

(***************************************************************************)
(* Program constants.                                                      *)
(***************************************************************************)
\* temp = 1000000000000.0 (evolve_sa.cc:51).  The literal exceeds the
\* 32-bit integers of TLC; trial() only ever tests the bootstrap
\* temperature for being positive, so 10^9 stands for it.
StartTemp == 1000000000
\* maxQ*4.0 (evolve_sa.h:77)
InitialTempFactor == 4
\* minTemp values offered to the run: 0 and a value the default schedule
\* reaches within MaxCool steps from every start temperature of the model.
MinTempHigh == 7

VARIABLES
  \* ---- EvolveSA::evolve ----
  mMut,         \* the Mutate of the engine: does it record its changes
  mParams,      \* EvolveSAParams (evolve_sa.h:41-82)
  sys,          \* the caller's System: its arcs
  heap,         \* live System objects created by new System(): address -> arcs
  curSys, newSys, tempSys,   \* the three System* of evolve(); 0 = never assigned
  iteration, i, accepts, noChange,
  temp,         \* [m, k]: the temperature m * 0.9^k
  minQ, maxQ,
  result,       \* evolve_sa_result_t
  pc,           \* position inside evolve()
  obsCall,      \* arguments of the latest EvoObserver call
  obsCount,     \* number of EvoObserver calls so far
  lastTrial,    \* what the latest trial() did
  streak,       \* consecutive outer iterations without an acceptance
  badFree,      \* deletes of a pointer that names no live object of the engine
  \* ---- EvolveSA::performance ----
  pType, initialConds, qSum, perf, simIdx, scores, pcP,
  simRuns,      \* per sim.simulate call of performance(): what came of it
  \* ---- Simulate*::simulate ----
  simSys,       \* the System handed to simulate
  initial,      \* the caller's State vector, read and written by simulate
  simLog,       \* calls the latest simulate made on its ChangeLog and observer
  lastSim,      \* what the latest simulate call was handed
  \* ---- System ----
  graph,        \* the System the program edits
  other,        \* a second System, the source of copySystem
  lastOp,       \* the latest call on graph and its argument
  freedKeys,    \* keys of erased nodes of graph since its keys last restarted
  \* ---- saveToGML / openFromGML ----
  gmlFile,      \* the file saveToGML wrote
  \* ---- ChangeLogSet ----
  mLoggers,     \* the sub-loggers registered, in registration order
  setPc,        \* position inside the hook of the set that is running
  setHook,      \* the hook of the set called last
  setI,         \* the loop variable i of that hook
  subCalls,     \* the slots of mLoggers the running hook has called through
  \* ---- ChangeLogToStream ----
  buffer,       \* the lines in the stringstream buffer
  mOut,         \* the lines written to the output stream
  streamOp,     \* the hook of the ChangeLogToStream called last
  expected,     \* the lines of the batches that were ended by commit
  rolledBack,   \* a batch that held a line was ended by rollback
  origin,       \* for each line a trial's mutation recorded: was the trial accepted
  \* ---- ownership of the dynamics descriptors ----
  objs,         \* the System objects: built-ins, registries, descriptors in use
  liveDesc,     \* the descriptors that are allocated
  evo           \* the Systems a running evolve holds: sys, curSys, newSys

evolveVars == <<mParams, mMut, sys, heap, curSys, newSys, tempSys,
                iteration, i, accepts, noChange, temp, minQ, maxQ, result, pc,
                obsCall, obsCount, lastTrial, streak, badFree>>
perfVars   == <<pType, initialConds, qSum, perf, simIdx, scores, pcP, simRuns>>
simVars    == <<simSys, initial, simLog, lastSim>>
sysVars    == <<graph, other, lastOp, freedKeys>>
gmlVars    == <<gmlFile>>
setVars    == <<mLoggers, setPc, setHook, setI, subCalls>>
streamVars == <<buffer, mOut, streamOp, expected, rolledBack, origin>>
descVars   == <<objs, liveDesc, evo>>
logVars    == <<setVars, streamVars>>
vars       == <<evolveVars, perfVars, simVars, sysVars, gmlVars, logVars,
                descVars>>

(***************************************************************************)
(* Graphs.  A System of the search is its set of arcs over Nodes; an       *)
(* undirected edge is the pair of opposing arcs (system.h:355).            *)
(***************************************************************************)
Rev(a) == <<a[2], a[1]>>

\* System::addEdge(u, v): addArc(v,u) then addArc(u,v)
addEdge(g, u, v) == g \cup {<<v, u>>, <<u, v>>}

\* System::ringGraph(numOfNodes, neighbours, undirected = true)
ringGraph(numOfNodes, neighbours) ==
  UNION { {<<v, ((v - 1 + j) % numOfNodes) + 1>>, <<((v - 1 + j) % numOfNodes) + 1, v>>}
          : v \in 1..numOfNodes, j \in 1..neighbours }

\* a path 1 - 2 - ... - NumNodes built by the caller with addEdge
pathGraph == UNION { {<<v, v + 1>>, <<v + 1, v>>} : v \in 1..(NumNodes - 1) }

InputGraphs == {ringGraph(NumNodes, 1), pathGraph}

\* nodes reachable from the set S when arcs are followed in both directions
RECURSIVE Reach(_, _)
Reach(g, S) ==
  LET T == S \cup {v \in Nodes : \E u \in S : <<u, v>> \in g \/ <<v, u>> \in g}
  IN  IF T = S THEN S ELSE Reach(g, T)

RECURSIVE CountComponents(_, _)
CountComponents(g, rest) ==
  IF rest = {} THEN 0
  ELSE LET v == CHOOSE x \in rest : TRUE
       IN  1 + CountComponents(g, rest \ Reach(g, {v}))

\* System::weaklyConnectedComponents
weaklyConnectedComponents(g) == CountComponents(g, Nodes)

(***************************************************************************)
(* MyMutate::mutate (examples/evolve_sa_top.cc): numOfRewires rewirings,   *)
(* each erasing one arc with its partner and adding one edge between two   *)
(* distinct nodes that have no arc u -> v.                                 *)
(***************************************************************************)
RewireOnce(g) ==
  { addEdge((g \ {Rev(a)}) \ {a}, u, v) :
      <<a, u, v>> \in { <<b, x, y>> \in g \X Nodes \X Nodes :
                          x # y /\ <<x, y>> \notin ((g \ {Rev(b)}) \ {b}) } }

RECURSIVE RewireN(_, _)
RewireN(g, n) ==
  IF n = 0 THEN {g}
  ELSE UNION { RewireOnce(h) : h \in RewireN(g, n - 1) }

mutate(g) == UNION { RewireN(g, n) : n \in 1..MaxRewires }

(***************************************************************************)
(* Performance (evolve.h:99-105) is supplied by the user.  The topology    *)
(* measure of the model is the out-degree of node 1, smaller is better.    *)
(***************************************************************************)
TopologyScore(g) == Cardinality({a \in g : a[1] = 1})

\* EvolveSA::performance, case TOPOLOGY_ONLY (evolve_sa.cc:208-211)
performanceTopology(g) == TopologyScore(g)


(***************************************************************************)
(* EvolveSAParams (evolve_sa.h:41-82).                                     *)
(* probMode names the acceptProb in force: the default Boltzmann function  *)
(* or an override that always returns 1, or always 0.                      *)
(***************************************************************************)
ProbModes == {"boltzmann", "one", "zero"}

\* EvolveSAParams::EvolveSAParams (evolve_sa.h:63-74): the default bundle,
\* every count scaled down to the bound of the model
DefaultParams ==
  [ initialTrials         |-> MaxInitialTrials,
    mainTrials            |-> MaxMainTrials,
    acceptTrials          |-> MaxAcceptTrials,
    acceptRunsNoChange    |-> MaxRunsNoChange,
    minTemp               |-> 0,
    maxIterations         |-> MaxIterationsBound,
    ensureWeaklyConnected |-> TRUE,
    probMode              |-> "boltzmann" ]

AllParams ==
  [ initialTrials         : 0..MaxInitialTrials,
    mainTrials            : 0..MaxMainTrials,
    acceptTrials          : 1..MaxAcceptTrials,
    acceptRunsNoChange    : 0..MaxRunsNoChange,
    minTemp               : {0, MinTempHigh},
    maxIterations         : 1..MaxIterationsBound,
    ensureWeaklyConnected : BOOLEAN,
    probMode              : ProbModes ]

\* the bundles a run is started with: the default bundle with at most
\* MaxChanged of its fields set by the caller
ParamSpace ==
  { p \in AllParams :
      Cardinality({f \in DOMAIN p : p[f] # DefaultParams[f]}) <= MaxChanged }

\* the values mParams.rnd() can return: k/RndLevels, in [0, 1)
RndValues == 0..(RndLevels - 1)

\* temperatures: [m, k] is m * 0.9^k
TempGT(t, x) == t.m * (9 ^ t.k) > x * (10 ^ t.k)
TempPositive(t) == t.m > 0

\* EvolveSAParams::initialTemperature: maxQ*4.0
initialTemperature(mnQ, mxQ) == [m |-> mxQ * InitialTempFactor, k |-> 0]

\* EvolveSAParams::newTemperature: temp*0.9
newTemperature(t, Q, oldQ) == [t EXCEPT !.k = @ + 1]

\* EvolveSAParams::acceptProb in units of 1/RndLevels.  The default is
\* exp(-dQ/temp): above 1 for dQ < 0, exactly 1 for dQ = 0 and strictly
\* between 0 and 1 for dQ > 0 (temp > 0 at every call).
acceptProb(mode, dQ, t) ==
  CASE mode = "one"  -> RndLevels
    [] mode = "zero" -> 0
    [] OTHER         -> IF dQ < 0 THEN RndLevels + 1
                        ELSE IF dQ = 0 THEN RndLevels
                        ELSE 1

\* evolve_sa.cc:158-163: the guard that returns the clone unscored
ConnectivityRejectOff(p, g) == FALSE
ConnectivityReject(p, g) ==
  p.ensureWeaklyConnected /\ weaklyConnectedComponents(g) # 1

\* evolve_sa.cc:166: the System handed to performance() is sys, the graph
\* the clone was copied from
ScoredSystem(from, clone) == from

\* evolve_sa.cc:169-187: the acceptance decision
AcceptColdOnly(p, dQ, t, r) ==
  IF dQ > 0 THEN TRUE
  ELSE IF ~TempPositive(t) THEN r <= acceptProb(p.probMode, dQ, t)
  ELSE FALSE
AcceptNoGuard(p, dQ, t, r) ==
  IF dQ > 0 THEN TRUE
  ELSE r <= acceptProb(p.probMode, dQ, t)
Accept(p, dQ, t, r) ==
  IF dQ > 0 THEN TRUE
  ELSE IF TempPositive(t) THEN r <= acceptProb(p.probMode, dQ, t)
  ELSE FALSE

\* evolve_sa.cc:173-178: the branch in which mParams.rnd() and acceptProb
\* are called, after the connectivity guard let the trial through
CallsAcceptProb(p, clone, dQ, t) ==
  ~ConnectivityReject(p, clone) /\ dQ <= 0 /\ TempPositive(t)

\* EvolveSA::trial: the result structure after a trial at temperature t on
\* the System `from`, whose clone became `clone` under mMut.mutate, with r
\* the value of mParams.rnd() (drawn only in the probabilistic branch)
trial(p, t, from, clone, r, res) ==
  IF ConnectivityReject(p, clone)
  THEN [res EXCEPT !.a = FALSE]
  ELSE LET q2 == performanceTopology(ScoredSystem(from, clone))
           dq == res.Q1 - q2
       IN  [Q1 |-> res.Q1, Q2 |-> q2, dQ |-> dq, a |-> Accept(p, dq, t, r)]

\* the record kept of the latest trial(): the loop it ran in, the address of
\* its clone, the clone's own score and component count, whether
\* performance() was reached, and the Q2 the acceptance test used
NoTrial == [phase |-> "none", id |-> 0, cloneScore |-> 0, cloneWCC |-> 1,
            scored |-> FALSE, Q2 |-> 0, probCalled |-> FALSE]

TrialRecord(ph, p, t, clone, id, res) ==
  [phase |-> ph, id |-> id, cloneScore |-> TopologyScore(clone),
   cloneWCC |-> weaklyConnectedComponents(clone),
   scored |-> ~ConnectivityReject(p, clone), Q2 |-> res.Q2,
   probCalled |-> CallsAcceptProb(p, clone, res.dQ, t)]

\* the streak of outer iterations without an acceptance, counted up to one
\* past every threshold on offer
NextStreak(n) == IF n <= MaxRunsNoChange THEN n + 1 ELSE n

\* bool noChange; noChange++ (evolve_sa.cc:32, 133): a bool that is
\* incremented becomes true
IncNoChange(b) == 1

\* new System(): the allocator hands out the lowest address not in use
NewId(h) == CHOOSE id \in 1..(Cardinality(DOMAIN h) + 1) :
              id \notin DOMAIN h /\ \A j \in 1..(id - 1) : j \in DOMAIN h
\* new System() followed by copySystem(g)
Alloc(h, id, g) == [x \in (DOMAIN h) \cup {id} |-> IF x = id THEN g ELSE h[x]]
\* delete(p): the object leaves the heap; a pointer to no live object frees nothing
Dealloc(h, id) == [x \in (DOMAIN h) \ {id} |-> h[x]]
\* 1 when delete(p) is handed a pointer that names no live object
WildFree(h, id) == IF id \in DOMAIN h THEN 0 ELSE 1

InitEngine ==
  /\ sys \in InputGraphs
  /\ heap = << >>
  /\ curSys = 0 /\ newSys = 0 /\ tempSys = 0
  /\ iteration = 0 /\ i = 0 /\ accepts = 0 /\ noChange = 0
  /\ temp = [m |-> StartTemp, k |-> 0]
  /\ minQ = 0 /\ maxQ = 0
  /\ result = [Q1 |-> 0, Q2 |-> 0, dQ |-> 0, a |-> FALSE]
  /\ pc = "start"
  /\ obsCall = [g |-> {}, perf |-> 0, t |-> 0]
  /\ obsCount = 0
  /\ lastTrial = NoTrial
  /\ streak = 0
  /\ badFree = 0

\* an engine with the default kind of mutator, which records nothing
InitEvolve ==
  /\ mParams \in ParamSpace
  /\ mMut = "silent"
  /\ InitEngine

\* the lines a mutator that reports to the logger records for the change
\* from `from` to `clone`: the arcs erased and the arcs added
MutationLines(from, clone) == << <<"E-", from \ clone>>, <<"E+", clone \ from>> >>

\* mMut.mutate(*newSys, logger) (evolve_sa.cc:155) seen from the logger; trial
\* and evolve make no other call on it
MutateLog(from, clone, accepted) ==
  IF mMut = "logging"
  THEN /\ buffer' = buffer \o MutationLines(from, clone)
       /\ origin' = origin \o [k \in 1..Len(MutationLines(from, clone)) |-> accepted]
       /\ streamOp' = "addArc"
       /\ UNCHANGED <<mOut, expected, rolledBack>>
  ELSE UNCHANGED streamVars

\* evolve_sa.cc:35-62: clone the input, score it, observe iteration 0
EvolveStart ==
  /\ pc = "start"
  /\ LET initialPerf == performanceTopology(sys)
         id == NewId(heap)
     IN  /\ heap' = Alloc(heap, id, sys)
         /\ curSys' = id /\ tempSys' = id
         /\ result' = [Q1 |-> initialPerf, Q2 |-> 0, dQ |-> 0, a |-> FALSE]
         /\ iteration' = 0
         /\ temp' = [m |-> StartTemp, k |-> 0]
         /\ obsCall' = [g |-> sys, perf |-> initialPerf, t |-> 0]
         /\ obsCount' = obsCount + 1
         /\ minQ' = initialPerf /\ maxQ' = initialPerf
  /\ i' = 0
  /\ pc' = "boot"
  /\ UNCHANGED <<mParams, mMut, sys, newSys, accepts, noChange, lastTrial, streak, badFree>>
  /\ UNCHANGED <<perfVars, simVars, sysVars, gmlVars, logVars, descVars>>

\* evolve_sa.cc:63-79: one bootstrap trial
BootTrial ==
  /\ pc = "boot"
  /\ i < mParams.initialTrials
  /\ \E clone \in mutate(heap[tempSys]), r \in RndValues :
       LET from == heap[tempSys]
           id   == NewId(heap)
           res  == trial(mParams, temp, from, clone, r, result)
           h1   == Alloc(heap, id, clone)
       IN  /\ result' = res
           /\ lastTrial' = TrialRecord("boot", mParams, temp, clone, id, res)
           /\ newSys' = id
           /\ heap' = IF i > 0 THEN Dealloc(h1, tempSys) ELSE h1
           /\ badFree' = IF i > 0 THEN badFree + WildFree(h1, tempSys) ELSE badFree
           /\ minQ' = IF res.Q2 < minQ THEN res.Q2 ELSE minQ
           /\ maxQ' = IF res.Q2 > maxQ THEN res.Q2 ELSE maxQ
           /\ tempSys' = id
           /\ MutateLog(from, clone, res.a)
  /\ i' = i + 1
  /\ UNCHANGED <<mParams, mMut, sys, curSys, iteration, accepts, noChange, temp, pc,
                 obsCall, obsCount, streak>>
  /\ UNCHANGED <<perfVars, simVars, sysVars, gmlVars, setVars, descVars>>

\* evolve_sa.cc:85-91: the start temperature and the entry of the search
EnterSearch ==
  /\ temp' = initialTemperature(minQ, maxQ)
  /\ noChange' = 0
  /\ pc' = IF TempPositive(initialTemperature(minQ, maxQ)) THEN "outer" ELSE "done"

\* evolve_sa.cc:82: delete(newSys) after at least one bootstrap trial
BootEnd ==
  /\ pc = "boot"
  /\ i >= mParams.initialTrials
  /\ newSys # 0
  /\ heap' = Dealloc(heap, newSys)
  /\ badFree' = badFree + WildFree(heap, newSys)
  /\ EnterSearch
  /\ UNCHANGED <<mParams, mMut, sys, curSys, newSys, tempSys, iteration, i,
                 accepts, minQ, maxQ, result, obsCall, obsCount, lastTrial, streak>>
  /\ UNCHANGED <<perfVars, simVars, sysVars, gmlVars, logVars, descVars>>

\* evolve_sa.cc:82 when no bootstrap trial ran: newSys was never assigned and
\* delete(newSys) reads an indeterminate pointer.  The value may be null
\* (nothing happens) or name no object of the allocator (the delete is an
\* invalid free and the run aborts).
BootEndUninit ==
  /\ pc = "boot"
  /\ i >= mParams.initialTrials
  /\ newSys = 0
  /\ \/ /\ EnterSearch
        /\ UNCHANGED badFree
     \/ /\ badFree' = badFree + 1
        /\ pc' = "crashed"
        /\ UNCHANGED <<temp, noChange>>
  /\ UNCHANGED <<mParams, mMut, sys, heap, curSys, newSys, tempSys,
                 iteration, i, accepts, minQ, maxQ, result, obsCall, obsCount,
                 lastTrial, streak>>
  /\ UNCHANGED <<perfVars, simVars, sysVars, gmlVars, logVars, descVars>>

\* evolve_sa.cc:94-99: the condition of the cooling loop
OuterCheck ==
  /\ pc = "outer"
  /\ IF /\ noChange <= mParams.acceptRunsNoChange
        /\ TempGT(temp, mParams.minTemp)
        /\ iteration <= mParams.maxIterations
     THEN /\ accepts' = 0 /\ i' = 0 /\ pc' = "inner"
     ELSE /\ pc' = "done" /\ UNCHANGED <<accepts, i>>
  /\ UNCHANGED <<mParams, mMut, sys, heap, curSys, newSys, tempSys,
                 iteration, noChange, temp, minQ, maxQ, result, obsCall,
                 obsCount, lastTrial, streak, badFree>>
  /\ UNCHANGED <<perfVars, simVars, sysVars, gmlVars, logVars, descVars>>

\* a budget test that lets one more trial through
IterationExceededLate(it, p) == it > p.maxIterations + 1

\* evolve_sa.cc:105: if (iteration > mParams.maxIterations) break;
IterationExceeded(it, p) == it > p.maxIterations

\* evolve_sa.cc:100-107: the iteration budget ends the inner loop
InnerBreak ==
  /\ pc = "inner"
  /\ i < mParams.mainTrials
  /\ IterationExceeded(iteration + 1, mParams)
  /\ iteration' = iteration + 1
  /\ pc' = "outerEnd"
  /\ UNCHANGED <<mParams, mMut, sys, heap, curSys, newSys, tempSys,
                 i, accepts, noChange, temp, minQ, maxQ, result, obsCall,
                 obsCount, lastTrial, streak, badFree>>
  /\ UNCHANGED <<perfVars, simVars, sysVars, gmlVars, logVars, descVars>>

\* evolve_sa.cc:100-130: one trial of the cooling loop, the promotion or the
\* disposal of its clone, and the observer call
InnerTrial ==
  /\ pc = "inner"
  /\ i < mParams.mainTrials
  /\ ~IterationExceeded(iteration + 1, mParams)
  /\ iteration' = iteration + 1
  /\ \E clone \in mutate(heap[curSys]), r \in RndValues :
       LET from == heap[curSys]
           id   == NewId(heap)
           res  == trial(mParams, temp, from, clone, r, result)
           h1   == Alloc(heap, id, clone)
           gone == IF res.a THEN curSys ELSE id
           cur2 == IF res.a THEN id ELSE curSys
           acc  == IF res.a THEN accepts + 1 ELSE accepts
           res2 == IF res.a THEN [res EXCEPT !.Q1 = res.Q2, !.Q2 = res.Q1] ELSE res
       IN  /\ lastTrial' = TrialRecord("cool", mParams, temp, clone, id, res)
           /\ newSys' = id
           /\ heap' = Dealloc(h1, gone)
           /\ badFree' = badFree + WildFree(h1, gone)
           /\ curSys' = cur2
           /\ result' = res2
           /\ obsCall' = [g |-> h1[cur2], perf |-> res2.Q1, t |-> iteration + 1]
           /\ obsCount' = obsCount + 1
           /\ accepts' = acc
           /\ IF acc >= mParams.acceptTrials
              THEN pc' = "outerEnd" /\ i' = i
              ELSE pc' = "inner" /\ i' = i + 1
           /\ MutateLog(from, clone, res.a)
  /\ UNCHANGED <<mParams, mMut, sys, tempSys, noChange, temp, minQ, maxQ, streak>>
  /\ UNCHANGED <<perfVars, simVars, sysVars, gmlVars, setVars, descVars>>

\* evolve_sa.cc:132-137: the no-change counter and the cooling step
OuterEnd ==
  /\ \/ pc = "outerEnd"
     \/ pc = "inner" /\ i >= mParams.mainTrials
  /\ temp.k < MaxCool
  /\ noChange' = IF accepts = 0 THEN IncNoChange(noChange) ELSE 0
  /\ streak' = IF accepts = 0 THEN NextStreak(streak) ELSE 0
  /\ temp' = newTemperature(temp, result.Q1, result.Q2)
  /\ pc' = "outer"
  /\ UNCHANGED <<mParams, mMut, sys, heap, curSys, newSys, tempSys,
                 iteration, i, accepts, minQ, maxQ, result, obsCall, obsCount,
                 lastTrial, badFree>>
  /\ UNCHANGED <<perfVars, simVars, sysVars, gmlVars, logVars, descVars>>

\* the temperatures a trial of the cooling loop can be handed: the cooling
\* schedule and minTemp are the caller's (evolve_sa.h:54, 78)
TrialTemps == { [m |-> x, k |-> 0] : x \in {0 - 1, 0, 1} }

\* the engine inside the cooling loop before a trial: the incumbent is a
\* clone of sys and result.Q1 the score an earlier evaluation gave it, at,
\* below or above what the next evaluation gives
InitTrial ==
  /\ mParams \in ParamSpace
  /\ mMut = "silent"
  /\ sys \in InputGraphs
  /\ heap = Alloc(<< >>, 1, sys)
  /\ curSys = 1 /\ newSys = 0 /\ tempSys = 1
  /\ iteration = 0 /\ i = 0 /\ accepts = 0 /\ noChange = 0
  /\ temp \in TrialTemps
  /\ minQ = performanceTopology(sys) /\ maxQ = performanceTopology(sys)
  /\ \E d \in {0 - 1, 0, 1} :
       result = [Q1 |-> performanceTopology(sys) + d, Q2 |-> 0, dQ |-> 0,
                 a |-> FALSE]
  /\ pc = "inner"
  /\ obsCall = [g |-> sys, perf |-> performanceTopology(sys), t |-> 0]
  /\ obsCount = 1
  /\ lastTrial = NoTrial
  /\ streak = 0
  /\ badFree = 0

\* the trials of one pass of the cooling loop
NextTrial == InnerTrial \/ InnerBreak

NextEvolve ==
  \/ EvolveStart \/ BootTrial \/ BootEnd \/ BootEndUninit
  \/ OuterCheck \/ InnerBreak \/ InnerTrial \/ OuterEnd

\* the bundles of the runs whose mutator reports to a ChangeLogToStream
LogParams ==
  { p \in ParamSpace : p.initialTrials <= 1 /\ p.maxIterations <= 1 }

InitEvoLog ==
  /\ mParams \in LogParams
  /\ mMut = "logging"
  /\ InitEngine

(***************************************************************************)
(* The simulators (simulate.cc) on a System grown by addNodeDynamic,       *)
(* addNode and addArc (system.cc:45-85).                                   *)
(* simSys.nodes lists the dynamics name of each node in NodeIt order (the  *)
(* newest node first), simSys.mNodeIDs the entry of mNodeIDs of each.      *)
(***************************************************************************)
MaxSimNodes == 2   \* nodes of the simulated System
MaxSimArcs  == 1   \* arcs of the simulated System
MaxVecLen   == 3   \* longest initial vector offered to simulate
MaxT        == 2   \* tMax in 0..MaxT
MaxSamples  == 2   \* samples an ODE integrator emits: 1..MaxSamples
TDen        == 2   \* tMax is offered in steps of 1/TDen

OdeKinds == {"SimulateOdeFixed", "SimulateOdeConst", "SimulateOdeAdaptive"}
\* the entries of a State (system.h:50): two values stand for the doubles
Values == {0, 1}
VectorsOfLen(n) == [1..n -> Values]
Vectors == UNION { VectorsOfLen(n) : n \in 0..MaxVecLen }

\* System::System (system.h:167-183)
NewSystem ==
  [nodes |-> << >>, arcs |-> 0, mNodeStates |-> 0, mArcStates |-> 0,
   mNodeIDs |-> << >>, mValidNodeIDs |-> TRUE, mValidArcIDs |-> TRUE,
   registered |-> {"NoNodeDynamic"}]

countNodes(S) == Len(S.nodes)

\* states of the dynamics OneStateDynamic (one state per node) and of
\* NoNodeDynamic
getStates(dyn) == IF dyn = "OneStateDynamic" THEN 1 ELSE 0

\* System::totalStates and the local of every simulate()
totalStates(S) == (countNodes(S) * S.mNodeStates) + (S.arcs * S.mArcStates)

\* System::validStateIDs
validStateIDs(S) == S.mValidNodeIDs /\ S.mValidArcIDs

\* System::refreshStateIDs: renumbers the nodes whose index is tagged
\* invalid (the arcs of the model carry no state; their ids are not kept)
refreshStateIDs(S) ==
  IF ~S.mValidNodeIDs
  THEN [S EXCEPT !.mNodeIDs = [p \in 1..countNodes(S) |-> p - 1]]
  ELSE S

\* System::stateID(Node) of the p-th node
stateID(S, p) == S.mNodeStates * S.mNodeIDs[p]

\* System::operator(): every node's dynamics writes its slot of dx.
\* OneStateDynamic::fn is dx[vID] = 1 - x[vID]; NoNodeDynamic::fn
\* writes nothing.
Evaluate(S, x, dx) ==
  IF S.mNodeStates > 0
  THEN [j \in 1..Len(dx) |->
          IF \E p \in 1..countNodes(S) :
               S.nodes[p] = "OneStateDynamic" /\ stateID(S, p) + 1 = j
          THEN 1 - x[j]
          ELSE dx[j]]
  ELSE dx

\* one call on the ChangeLog or on the SimObserver: the hook, the State
\* handed to it (newState, obs), the step type (endStep) and the time (obs)
LogCall(call, state, type, t) ==
  [call |-> call, state |-> state, type |-> type, t |-> t]

\* the calls made for one sample y at time t (simulate.cc:50-53, 62-67,
\* 73-78, simulate.h:164-171): three hooks of the change log, then the
\* observer
SampleObsFirst(y, t) ==
  << LogCall("newState", y, "", 0), LogCall("endStep", << >>, "SIM_STEP", 0),
     LogCall("obs", y, "", t), LogCall("commit", << >>, "", 0) >>
Sample(y, t) ==
  << LogCall("newState", y, "", 0), LogCall("endStep", << >>, "SIM_STEP", 0),
     LogCall("commit", << >>, "", 0), LogCall("obs", y, "", t) >>

\* simulate.cc:56-79: the stepping loop of SimulateMap from step t on
RECURSIVE MapLoop(_, _, _, _, _, _)
MapLoop(S, t, tEnd, y1, y2, log) ==
  IF t > tEnd THEN [t |-> t, y1 |-> y1, y2 |-> y2, log |-> log]
  ELSE IF t % 2 = 0
       THEN LET n2 == Evaluate(S, y1, y2)
            IN  MapLoop(S, t + 1, tEnd, y1, n2, log \o Sample(n2, t))
       ELSE LET n1 == Evaluate(S, y2, y1)
            IN  MapLoop(S, t + 1, tEnd, n1, y2, log \o Sample(n1, t))

\* simulate.cc:37, 89, 122, 158: the size check of every simulator
SizeMismatchNever(S, init) == FALSE
SizeMismatch(S, init) ==
  Len(init) < totalStates(S) \/ Len(init) > totalStates(S)

\* no simulate call since the System was last edited
NoCall == [kind |-> "none", mismatch |-> FALSE, before |-> << >>,
           sysBefore |-> NewSystem, tMax |-> 0]

InitSim ==
  /\ simSys = NewSystem
  /\ initial = << >>
  /\ simLog = << >>
  /\ lastSim = NoCall

\* System::addNodeDynamic (system.cc:45-48)
addNodeDynamic ==
  /\ "OneStateDynamic" \notin simSys.registered
  /\ simSys' = [simSys EXCEPT
        !.registered = @ \cup {"OneStateDynamic"},
        !.mNodeStates = IF getStates("OneStateDynamic") > @
                        THEN getStates("OneStateDynamic") ELSE @]
  /\ lastSim' = NoCall
  /\ UNCHANGED <<initial, simLog>>
  /\ UNCHANGED <<evolveVars, perfVars, sysVars, gmlVars, logVars, descVars>>

\* System::addNode(dynamic) (system.cc:55-68); the new entry of mNodeIDs is
\* the map's default value
addNode ==
  /\ countNodes(simSys) < MaxSimNodes
  /\ \E dyn \in simSys.registered :
       simSys' = [simSys EXCEPT !.nodes = <<dyn>> \o @,
                                !.mNodeIDs = <<0>> \o @,
                                !.mValidNodeIDs = FALSE]
  /\ lastSim' = NoCall
  /\ UNCHANGED <<initial, simLog>>
  /\ UNCHANGED <<evolveVars, perfVars, sysVars, gmlVars, logVars, descVars>>

\* System::addArc(u, v) (system.cc:76-85)
addArc ==
  /\ countNodes(simSys) > 0
  /\ simSys.arcs < MaxSimArcs
  /\ simSys' = [simSys EXCEPT !.arcs = @ + 1, !.mValidArcIDs = FALSE]
  /\ lastSim' = NoCall
  /\ UNCHANGED <<initial, simLog>>
  /\ UNCHANGED <<evolveVars, perfVars, sysVars, gmlVars, logVars, descVars>>

\* the caller builds the State vector of its next call, with an observer
\* and a change log that have seen nothing (evolve_sa.cc:200-204, 217-223)
NewCall ==
  /\ \E init \in Vectors : initial' = init
  /\ simLog' = << >>
  /\ lastSim' = NoCall
  /\ UNCHANGED simSys
  /\ UNCHANGED <<evolveVars, perfVars, sysVars, gmlVars, logVars, descVars>>

\* the record kept of the latest simulate call: the simulator, whether the
\* vector handed in had a length other than totalStates, the vector and the
\* System as they were at the call
CallRecord(kind, init, tMax) ==
  [kind |-> kind, mismatch |-> Len(init) # totalStates(simSys), before |-> init,
   sysBefore |-> simSys, tMax |-> tMax]

\* tMax is a double: the model offers the multiples of 1/TDen from -1 to
\* MaxT + (TDen-1)/TDen, counted in units of 1/TDen
TMaxValues == (0 - TDen)..((MaxT * TDen) + TDen - 1)

\* int tEnd = (int)tMax (simulate.cc:33): the conversion drops the fraction
IntOfRounding(tm) == (tm + (TDen \div 2)) \div TDen
IntOf(tm) == IF tm >= 0 THEN tm \div TDen ELSE 0 - ((0 - tm) \div TDen)

\* initial = ( t%2 == 0 ) ? y1 : y2 (simulate.cc:82)
FinalBufferOther(t, y1, y2) == IF t % 2 = 0 THEN y2 ELSE y1
FinalBuffer(t, y1, y2) == IF t % 2 = 0 THEN y1 ELSE y2

\* SimulateMap::simulate (simulate.cc:30-83)
SimulateMap ==
  /\ simLog = << >>   \* the observer and the log are those of NewCall
  /\ \E tMax \in TMaxValues :
       /\ lastSim' = CallRecord("SimulateMap", initial, tMax)
       /\ IF SizeMismatch(simSys, initial)
          THEN /\ simLog' = << >>
               /\ UNCHANGED <<simSys, initial>>
          ELSE LET S1 == IF ~validStateIDs(simSys) THEN refreshStateIDs(simSys)
                         ELSE simSys
                   r  == MapLoop(S1, 1, IntOf(tMax), initial, initial,
                                 Sample(initial, 0))
               IN  /\ simSys' = S1
                   /\ simLog' = r.log
                   /\ initial' = FinalBuffer(r.t, r.y1, r.y2)
  /\ UNCHANGED <<evolveVars, perfVars, sysVars, gmlVars, logVars, descVars>>

\* the samples traj[k..] handed to ObserverPassThrough (simulate.h:156-172),
\* the k-th of them at the k-th time of the integrator's grid
RECURSIVE PassThrough(_, _)
PassThrough(traj, k) ==
  IF k > Len(traj) THEN << >>
  ELSE Sample(traj[k], k - 1) \o PassThrough(traj, k + 1)

\* SimulateOdeFixed / SimulateOdeConst / SimulateOdeAdaptive ::simulate
\* (simulate.cc:85-188), which differ in the integrator alone; known = FALSE
\* is the default: branch of the switch on mStepper.  integrate_const and
\* integrate_adaptive (boost::odeint) hand the observer the start state and
\* then the state after each step, and leave the last state in `initial`:
\* a trajectory of 1..MaxSamples samples, the first of them the vector
\* handed in, the later ones whatever the integration gives.
SimulateOde ==
  /\ simLog = << >>   \* the observer and the log are those of NewCall
  /\ \E kind \in OdeKinds :
       /\ lastSim' = CallRecord(kind, initial, 0)
       /\ IF SizeMismatch(simSys, initial)
          THEN /\ simLog' = << >>
               /\ UNCHANGED <<simSys, initial>>
          ELSE /\ simSys' = IF ~validStateIDs(simSys) THEN refreshStateIDs(simSys)
                            ELSE simSys
               /\ \E known \in BOOLEAN :
                    IF known
                    THEN \E n \in 1..MaxSamples :
                         \E traj \in [1..n -> VectorsOfLen(Len(initial))] :
                           /\ traj[1] = initial
                           /\ simLog' = PassThrough(traj, 1)
                           /\ initial' = traj[n]
                    ELSE /\ simLog' = << >>
                         /\ UNCHANGED initial
  /\ UNCHANGED <<evolveVars, perfVars, sysVars, gmlVars, logVars, descVars>>

NextSim ==
  \/ addNodeDynamic \/ addNode \/ addArc
  \/ NewCall \/ SimulateMap \/ SimulateOde

(***************************************************************************)
(* EvolveSA::performance (evolve_sa.cc:193-240).                           *)
(* Scores are counted in units of 1/ScoreDen.  perf.bad = TRUE stands for  *)
(* the start value 100000000000.0, which exceeds TLC's 32-bit integers.    *)
(***************************************************************************)
MaxConds    == 3   \* initial-state vectors supplied: 0..MaxConds
MaxDynScore == 4   \* a score returned by mQ.performance: 0..MaxDynScore units
ScoreDen    == 2   \* units per 1.0
MaxCondLen  == 1   \* length of a supplied initial-state vector: 0..MaxCondLen

PerfTypes == {"TOPOLOGY_ONLY", "DYNAMICS_ONLY", "TOPOLOGY_AND_DYNAMICS"}
DynScores == 0..MaxDynScore
\* the State vectors initial.initialStates(sys) may hand back; the scored
\* System is simSys, and the entries play no part in performance()
CondVectors == UNION { [1..n -> {0}] : n \in 0..MaxCondLen }

BadPerf == [bad |-> TRUE, q |-> 0]

\* qSum += mQ.performance(sys, &dyn) with int qSum: the sum is formed in
\* double and converted back to int, which drops the fraction
AddToQSum(q, s) == ((q * ScoreDen) + s) \div ScoreDen

\* perf = qSum/initialConds.size(): a division of integers, here in units
MeanOfQSum(q, n) == (q \div n) * ScoreDen

RECURSIVE SumSeq(_)
SumSeq(sq) == IF sq = << >> THEN 0 ELSE Head(sq) + SumSeq(Tail(sq))

InitPerf ==
  /\ pType \in PerfTypes
  /\ initialConds \in UNION { [1..n -> CondVectors] : n \in 0..MaxConds }
  /\ qSum = 0
  /\ perf = BadPerf
  /\ simIdx = 0
  /\ scores = << >>
  /\ simRuns = << >>
  /\ pcP = "start"

\* evolve_sa.cc:196-220: the switch on the performance type
PerfStart ==
  /\ pcP = "start"
  /\ IF pType = "TOPOLOGY_ONLY"
     THEN \E s \in DynScores :
            /\ perf' = [bad |-> FALSE, q |-> s]
            /\ pcP' = "done"
            /\ UNCHANGED <<qSum, simIdx>>
     ELSE /\ qSum' = 0
          /\ simIdx' = 0
          /\ pcP' = IF Len(initialConds) > 0 THEN "loop" ELSE "done"
          /\ UNCHANGED perf
  /\ UNCHANGED <<pType, initialConds, scores, simRuns>>
  /\ UNCHANGED <<evolveVars, simVars, sysVars, gmlVars, logVars, descVars>>

\* What sim.simulate leaves behind for performance(): simulate returns void
\* (simulate.h:83-86), so the only trace of a size mismatch is that the
\* observer SimObserverToVectors was never called and xOut stayed empty.
SimRun(init) ==
  [mismatch |-> SizeMismatch(simSys, init),
   xOutEmpty |-> SizeMismatch(simSys, init),
   scored |-> TRUE]

\* evolve_sa.cc:221-228: one simulation, then mQ.performance on whatever
\* the observer collected, and its score s
PerfSimulate ==
  /\ pcP = "loop"
  /\ simIdx < Len(initialConds)
  /\ simRuns' = Append(simRuns, SimRun(initialConds[simIdx + 1]))
  /\ \E s \in DynScores :
       /\ qSum' = AddToQSum(qSum, s)
       /\ scores' = Append(scores, s)
  /\ simIdx' = simIdx + 1
  /\ UNCHANGED <<pType, initialConds, perf, pcP>>
  /\ UNCHANGED <<evolveVars, simVars, sysVars, gmlVars, logVars, descVars>>

\* evolve_sa.cc:229: the mean
PerfMean ==
  /\ pcP = "loop"
  /\ simIdx >= Len(initialConds)
  /\ perf' = [bad |-> FALSE, q |-> MeanOfQSum(qSum, Len(initialConds))]
  /\ pcP' = "done"
  /\ UNCHANGED <<pType, initialConds, qSum, simIdx, scores, simRuns>>
  /\ UNCHANGED <<evolveVars, simVars, sysVars, gmlVars, logVars, descVars>>

NextPerf == PerfStart \/ PerfSimulate \/ PerfMean

(***************************************************************************)
(* The structure of a System (system.h:112-372, system.cc:45-129,          *)
(* 698-726): its nodes and arcs, the two dynamics libraries, the state     *)
(* widths, the two validity tags of the state ids and the node keys.       *)
(* graph is the System the program edits and other a second System, built  *)
(* beforehand, that graph.copySystem(other) copies from.                   *)
(* A node is [n, key, name, dynamic, id]: its handle in the ListDigraph,   *)
(* the fields of its NodeData (name: its characters) and its entry of      *)
(* mNodeIDs; nodes are listed                                              *)
(* in NodeIt order, the newest first.  An arc is [a, u, v, id]: its        *)
(* handle, the handles of its source and target and its entry of mArcIDs;  *)
(* arcs are listed the newest first.                                       *)
(***************************************************************************)
MaxSysNodes == 2   \* nodes of graph
MaxSysArcs  == 2   \* arcs of graph
MaxKey      == 3   \* mNextKey is followed up to MaxKey
MaxStates   == 2   \* getStates() of a descriptor the program owns: 1..MaxStates

\* new NoNodeDynamic(), new NoArcDynamic() (system.h:70-83, 176-177)
noNodeDyn == [name |-> "NoNodeDynamic", states |-> 0]
noArcDyn  == [name |-> "NoArcDynamic", states |-> 0]

\* the null pointer in the place of a descriptor
nullDyn == [name |-> "null", states |-> 0]

\* the descriptor objects of the program: getName() and getStates() of each
\* (system.h:53-68); the objects of a kind answer getName() alike
NodeDynamics == { [name |-> "NodeDyn", states |-> s] : s \in 1..MaxStates }
ArcDynamics  == { [name |-> "ArcDyn", states |-> s] : s \in 1..MaxStates }

\* std::map::insert: an entry whose key is in the map is left as it is
MapInsert(m, d) ==
  IF d.name \in DOMAIN m THEN m
  ELSE [k \in (DOMAIN m) \cup {d.name} |-> IF k = d.name THEN d ELSE m[k]]

\* System::addNodeDynamic (system.cc:45-48)
sysAddNodeDynamic(S, d) ==
  [S EXCEPT !.mNodeDynamics = MapInsert(@, d),
            !.mNodeStates = IF d.states > @ THEN d.states ELSE @]

\* System::addArcDynamic (system.cc:50-53)
sysAddArcDynamic(S, d) ==
  [S EXCEPT !.mArcDynamics = MapInsert(@, d),
            !.mArcStates = IF d.states > @ THEN d.states ELSE @]

\* System::System (system.h:167-183)
EmptySystem ==
  sysAddArcDynamic(
    sysAddNodeDynamic(
      [nodes |-> << >>, arcs |-> << >>, mNodeStates |-> 0, mArcStates |-> 0,
       mValidNodeIDs |-> TRUE, mValidArcIDs |-> TRUE, mNextKey |-> 0,
       mNodeDynamics |-> << >>, mArcDynamics |-> << >>],
      noNodeDyn),
    noArcDyn)

nodeCount(S) == Len(S.nodes)
arcCount(S)  == Len(S.arcs)

\* the handles in use
NodeHandles(S) == { S.nodes[p].n : p \in 1..nodeCount(S) }
ArcHandles(S)  == { S.arcs[q].a : q \in 1..arcCount(S) }

\* ListDigraph::addNode / addArc hand out a handle that is not in use
FreshNode(S) == CHOOSE n \in 0..nodeCount(S) : n \notin NodeHandles(S)
FreshArc(S)  == CHOOSE a \in 0..arcCount(S) : a \notin ArcHandles(S)

\* mNextKey++ (system.cc:59)
NextKeyStuck(k) == k
NextKeyAfter(k) == k + 1

\* System::addNode(dynamic), addNode(name, dynamic) (system.cc:55-74)
sysAddNode(S, name, dynamic) ==
  [S EXCEPT !.nodes = << [n |-> FreshNode(S), key |-> S.mNextKey,
                          name |-> name,
                          dynamic |-> S.mNodeDynamics[dynamic],
                          id |-> 0] >> \o @,
            !.mNextKey = NextKeyAfter(@),
            !.mValidNodeIDs = FALSE]

\* System::addArc(u, v, dynamic) (system.cc:76-85)
sysAddArc(S, u, v, dynamic) ==
  [S EXCEPT !.arcs = << [a |-> FreshArc(S), u |-> u, v |-> v,
                         dynamic |-> S.mArcDynamics[dynamic],
                         id |-> 0] >> \o @,
            !.mValidArcIDs = FALSE]

\* System::addEdge(u, v, dynamic) (system.cc:94-98): addArc(v, u), then
\* addArc(u, v)
sysAddEdge(S, u, v, dynamic) ==
  sysAddArc(sysAddArc(S, v, u, dynamic), u, v, dynamic)

\* erase(Node) of the ListDigraph the System is (system.h:112): the arcs at
\* the node go with it; no member of System takes part
sysEraseNode(S, n) ==
  [S EXCEPT !.nodes = SelectSeq(@, LAMBDA r : r.n # n),
            !.arcs  = SelectSeq(@, LAMBDA r : r.u # n /\ r.v # n)]

\* erase(Arc) of the ListDigraph (examples/evolve_sa_top.cc:44-45)
sysEraseArc(S, a) ==
  [S EXCEPT !.arcs = SelectSeq(@, LAMBDA r : r.a # a)]

\* System::clear (system.h:195-204)
sysClear(S) ==
  [S EXCEPT !.nodes = << >>, !.arcs = << >>,
            !.mValidNodeIDs = FALSE, !.mValidArcIDs = FALSE,
            !.mNextKey = 0]

\* ArcIt: the nodes in NodeIt order, the arcs out of each the newest first
RECURSIVE ArcItFrom(_, _)
ArcItFrom(S, p) ==
  IF p > nodeCount(S) THEN << >>
  ELSE SelectSeq(S.arcs, LAMBDA r : r.u = S.nodes[p].n) \o ArcItFrom(S, p + 1)
ArcIt(S) == ArcItFrom(S, 1)

\* the place of the arc with handle a in a sequence of arcs
PlaceOf(sq, a) == CHOOSE q \in 1..Len(sq) : sq[q].a = a

\* System::refreshStateIDs (system.cc:698-717)
sysRefreshStateIDsValidating(S) ==
  [S EXCEPT !.nodes = [p \in 1..nodeCount(S) |->
                         [S.nodes[p] EXCEPT !.id = IF ~S.mValidNodeIDs
                                                   THEN p - 1 ELSE @]],
            !.arcs  = [q \in 1..arcCount(S) |->
                         [S.arcs[q] EXCEPT !.id = IF ~S.mValidArcIDs
                                                  THEN PlaceOf(ArcIt(S), S.arcs[q].a) - 1
                                                  ELSE @]],
            !.mValidNodeIDs = TRUE, !.mValidArcIDs = TRUE]
sysRefreshStateIDs(S) ==
  [S EXCEPT !.nodes = [p \in 1..nodeCount(S) |->
                         [S.nodes[p] EXCEPT !.id = IF ~S.mValidNodeIDs
                                                   THEN p - 1 ELSE @]],
            !.arcs  = [q \in 1..arcCount(S) |->
                         [S.arcs[q] EXCEPT !.id = IF ~S.mValidArcIDs
                                                  THEN PlaceOf(ArcIt(S), S.arcs[q].a) - 1
                                                  ELSE @]]]

\* System::validStateIDs (system.cc:694-696)
sysValidStateIDs(S) == S.mValidNodeIDs /\ S.mValidArcIDs

\* System::totalStates (system.h:367-368)
sysTotalStates(S) ==
  (S.mNodeStates * nodeCount(S)) + (S.mArcStates * arcCount(S))

\* System::stateID(Node) (system.cc:719-721) of the p-th node
stateIDNode(S, p) == S.mNodeStates * S.nodes[p].id

\* System::stateID(Arc) (system.cc:723-725) of the q-th arc
stateIDArcNoOffset(S, q) == S.mArcStates * S.arcs[q].id
stateIDArc(S, q) ==
  (S.mNodeStates * nodeCount(S)) + (S.mArcStates * S.arcs[q].id)

RECURSIVE Reverse(_)
Reverse(sq) == IF sq = << >> THEN << >> ELSE Reverse(Tail(sq)) \o <<Head(sq)>>

\* System::resetKeys (system.cc:123-129)
sysResetKeys(S) ==
  [S EXCEPT !.nodes = [p \in 1..nodeCount(S) |-> [S.nodes[p] EXCEPT !.key = p - 1]],
            !.mNextKey = nodeCount(S)]

\* the ArcMap<Arc> acr(from) of copySystem after digraphCopy has run with
\* arcCrossRef(acr) (system.h:276, 282): the copy of the q-th arc of from
\* in ArcIt order has the handle q-1 in the emptied graph, and the entry
\* of acr at that handle is set to the arc of from.  The entries at the
\* other handles of from were never set: stray gives the handle read there
\* (-1 for one that is no arc of the copy).
acrOf(from, stray) ==
  [k \in ArcHandles(from) \cup (0..(arcCount(from) - 1)) |->
     IF k < arcCount(from) THEN ArcIt(from)[k + 1].a ELSE stray[k]]

\* the values an entry of acr that was never set can hold
StrayChoices(from) ==
  [ArcHandles(from) \ (0..(arcCount(from) - 1)) -> (0 - 1)..(arcCount(from) - 1)]

\* system.h:303-312: for each arc e of from in ArcIt order the ArcData of
\* from is copied into arcData(acr[e]) of the copy; a handle that is no arc
\* of the copy changes none of its arcs
RECURSIVE CopyArcData(_, _, _, _)
CopyArcData(toArcs, fromArcs, q, acr) ==
  IF q > Len(fromArcs) THEN toArcs
  ELSE CopyArcData(
         [j \in 1..Len(toArcs) |->
            IF toArcs[j].a = acr[fromArcs[q].a]
            THEN [toArcs[j] EXCEPT !.dynamic = fromArcs[q].dynamic]
            ELSE toArcs[j]],
         fromArcs, q + 1, acr)

\* System::copySystem (system.h:272-325) into to: clear(), then digraphCopy
\* adds a node for each node of from in NodeIt order, and an arc for each
\* arc in ArcIt order, to the emptied graph, so the copy lists them in the
\* opposite order; the p-th node of from gets the handle p-1.  The new
\* arcs hold a value-initialised ArcData.  The libraries, the node data,
\* the widths and mNextKey are those of from; the arc data are copied
\* through acr.
sysCopySystem(to, from, stray) ==
  LET handle == [p \in 1..nodeCount(from) |-> p - 1]
      nodeAt(n) == CHOOSE p \in 1..nodeCount(from) : from.nodes[p].n = n
      fromArcs == ArcIt(from)
      newArcs == Reverse([q \in 1..Len(fromArcs) |->
                      [a |-> q - 1, u |-> handle[nodeAt(fromArcs[q].u)],
                       v |-> handle[nodeAt(fromArcs[q].v)],
                       dynamic |-> nullDyn, id |-> 0]])
  IN  [sysClear(to) EXCEPT
         !.nodes = Reverse([p \in 1..nodeCount(from) |->
                      [from.nodes[p] EXCEPT !.n = handle[p], !.id = 0]]),
         !.arcs  = CopyArcData(newArcs, fromArcs, 1, acrOf(from, stray)),
         !.mNodeDynamics = from.mNodeDynamics,
         !.mArcDynamics = from.mArcDynamics,
         !.mValidNodeIDs = FALSE, !.mValidArcIDs = FALSE,
         !.mNodeStates = from.mNodeStates,
         !.mArcStates = from.mArcStates,
         !.mNextKey = from.mNextKey]

\* the latest call on graph
Op(op, arg) == [op |-> op, arg |-> arg]

\* Systems built beforehand: a new one; one whose program registered a node
\* descriptor and an arc descriptor, added two nodes and erased the older;
\* and that one after a further addNode and an addEdge
OtherBuilt ==
  LET S0 == sysAddArcDynamic(
              sysAddNodeDynamic(EmptySystem, [name |-> "NodeDyn", states |-> 1]),
              [name |-> "ArcDyn", states |-> MaxStates])
      S1 == sysAddNode(sysAddNode(S0, << >>, "NodeDyn"), << >>, "NoNodeDynamic")
      S2 == sysEraseNode(S1, S1.nodes[2].n)
      S3 == sysAddNode(S2, << >>, "NodeDyn")
      S4 == sysAddEdge(S3, S3.nodes[1].n, S3.nodes[2].n, "ArcDyn")
  IN  <<S2, S4>>
OtherSystems == {EmptySystem, OtherBuilt[1], OtherBuilt[2]}

\* Systems whose program has registered its descriptors and not yet added a
\* node (examples/simulate_ode.cc:105-107)
RegisteredSystems ==
  {EmptySystem} \cup
  { sysAddArcDynamic(sysAddNodeDynamic(EmptySystem, dn), da) :
      dn \in NodeDynamics, da \in ArcDynamics }

InitSys ==
  /\ graph = EmptySystem
  /\ other \in OtherSystems
  /\ lastOp = Op("System", << >>)
  /\ freedKeys = {}

\* the same with the descriptors registered
InitIds ==
  /\ graph \in RegisteredSystems
  /\ other \in OtherSystems
  /\ lastOp = Op("System", << >>)
  /\ freedKeys = {}

addArcDynamic ==
  /\ \E d \in ArcDynamics :
       /\ graph' = sysAddArcDynamic(graph, d)
       /\ lastOp' = Op("addArcDynamic", d)
  /\ UNCHANGED <<other, freedKeys>>
  /\ UNCHANGED <<evolveVars, perfVars, simVars, gmlVars, logVars, descVars>>

AddNodeDynamic ==
  /\ \E d \in NodeDynamics :
       /\ graph' = sysAddNodeDynamic(graph, d)
       /\ lastOp' = Op("addNodeDynamic", d)
  /\ UNCHANGED <<other, freedKeys>>
  /\ UNCHANGED <<evolveVars, perfVars, simVars, gmlVars, logVars, descVars>>

\* addNode(dynamic) with a name of the library (find() of any other name
\* gives end())
AddNode ==
  /\ nodeCount(graph) < MaxSysNodes
  /\ graph.mNextKey < MaxKey
  /\ \E dynamic \in DOMAIN graph.mNodeDynamics :
       /\ graph' = sysAddNode(graph, << >>, dynamic)
       /\ lastOp' = Op("addNode", << >>)
  /\ UNCHANGED <<other, freedKeys>>
  /\ UNCHANGED <<evolveVars, perfVars, simVars, gmlVars, logVars, descVars>>

AddArc ==
  /\ arcCount(graph) < MaxSysArcs
  /\ \E u \in NodeHandles(graph), v \in NodeHandles(graph),
        dynamic \in DOMAIN graph.mArcDynamics :
       /\ graph' = sysAddArc(graph, u, v, dynamic)
       /\ lastOp' = Op("addArc", << >>)
  /\ UNCHANGED <<other, freedKeys>>
  /\ UNCHANGED <<evolveVars, perfVars, simVars, gmlVars, logVars, descVars>>

AddEdge ==
  /\ arcCount(graph) + 2 <= MaxSysArcs
  /\ \E u \in NodeHandles(graph), v \in NodeHandles(graph),
        dynamic \in DOMAIN graph.mArcDynamics :
       /\ graph' = sysAddEdge(graph, u, v, dynamic)
       /\ lastOp' = Op("addEdge", << >>)
  /\ UNCHANGED <<other, freedKeys>>
  /\ UNCHANGED <<evolveVars, perfVars, simVars, gmlVars, logVars, descVars>>

eraseNode ==
  /\ \E p \in 1..nodeCount(graph) :
       /\ graph' = sysEraseNode(graph, graph.nodes[p].n)
       /\ lastOp' = Op("eraseNode", arcCount(graph) - arcCount(graph'))
       /\ freedKeys' = freedKeys \cup {graph.nodes[p].key}
  /\ UNCHANGED other
  /\ UNCHANGED <<evolveVars, perfVars, simVars, gmlVars, logVars, descVars>>

eraseArc ==
  /\ \E q \in 1..arcCount(graph) :
       /\ graph' = sysEraseArc(graph, graph.arcs[q].a)
       /\ lastOp' = Op("eraseArc", 1)
  /\ UNCHANGED <<other, freedKeys>>
  /\ UNCHANGED <<evolveVars, perfVars, simVars, gmlVars, logVars, descVars>>

clear ==
  /\ graph' = sysClear(graph)
  /\ lastOp' = Op("clear", << >>)
  /\ freedKeys' = {}
  /\ UNCHANGED other
  /\ UNCHANGED <<evolveVars, perfVars, simVars, gmlVars, logVars, descVars>>

\* graph.copySystem(other)
copySystem ==
  /\ \E stray \in StrayChoices(other) :
       graph' = sysCopySystem(graph, other, stray)
  /\ freedKeys' = {}
  /\ UNCHANGED other
  /\ lastOp' = Op("copySystem", << >>)
  /\ UNCHANGED <<evolveVars, perfVars, simVars, gmlVars, logVars, descVars>>

resetKeys ==
  /\ graph' = sysResetKeys(graph)
  /\ lastOp' = Op("resetKeys", << >>)
  /\ freedKeys' = {}
  /\ UNCHANGED other
  /\ UNCHANGED <<evolveVars, perfVars, simVars, gmlVars, logVars, descVars>>

RefreshStateIDs ==
  /\ graph' = sysRefreshStateIDs(graph)
  /\ lastOp' = Op("refreshStateIDs", << >>)
  /\ UNCHANGED <<other, freedKeys>>
  /\ UNCHANGED <<evolveVars, perfVars, simVars, gmlVars, logVars, descVars>>

\* the edits of the structure and the refresh of the state ids
NextIds ==
  \/ AddNode \/ AddArc \/ AddEdge \/ eraseNode \/ eraseArc
  \/ clear \/ copySystem \/ RefreshStateIDs

\* the registration of descriptors and their use
NextReg ==
  \/ AddNodeDynamic \/ addArcDynamic \/ AddNode \/ AddArc
  \/ clear \/ copySystem

\* the operations that set node keys
NextKeys ==
  \/ AddNode \/ eraseNode \/ clear \/ copySystem \/ resetKeys

\* findArc(*this, u, v) != INVALID
HasArc(S, u, v) == \E q \in 1..arcCount(S) : S.arcs[q].u = u /\ S.arcs[q].v = v

\* System::randomGraph (system.cc:535-566) after clear() and the addNode
\* calls: the pairs (n1, n2) in the order of the two NodeIt loops, k counting
\* them from 0; order lists the node handles in NodeIt order and draw tells
\* for each pair whether mRnd() <= edgeProb
RECURSIVE RandomArcs(_, _, _, _, _, _)
RandomArcs(S, order, k, selfLoops, undirected, draw) ==
  IF k >= Len(order) * Len(order) THEN S
  ELSE LET n1 == order[(k \div Len(order)) + 1]
           n2 == order[(k % Len(order)) + 1]
           T  == IF ((n1 = n2 /\ selfLoops) \/ n1 # n2) /\ draw[k]
                 THEN IF undirected
                      THEN IF ~HasArc(S, n1, n2)
                           THEN sysAddArc(sysAddArc(S, n1, n2, "NoArcDynamic"),
                                          n2, n1, "NoArcDynamic")
                           ELSE S
                      ELSE sysAddArc(S, n1, n2, "NoArcDynamic")
                 ELSE S
       IN  RandomArcs(T, order, k + 1, selfLoops, undirected, draw)

RECURSIVE AddNodes(_, _)
AddNodes(S, n) ==
  IF n = 0 THEN S ELSE AddNodes(sysAddNode(S, << >>, "NoNodeDynamic"), n - 1)

\* System::randomGraph(edgeProb, numOfNodes, selfLoops, undirected)
sysRandomGraph(S, numOfNodes, selfLoops, undirected, draw) ==
  LET N == AddNodes(sysClear(S), numOfNodes)
      order == [p \in 1..nodeCount(N) |-> N.nodes[p].n]
  IN  sysRefreshStateIDs(RandomArcs(N, order, 0, selfLoops, undirected, draw))

randomGraph ==
  /\ \E numOfNodes \in 0..MaxSysNodes, selfLoops \in BOOLEAN,
        undirected \in BOOLEAN :
       \E draw \in [0..((numOfNodes * numOfNodes) - 1) -> BOOLEAN] :
         /\ graph' = sysRandomGraph(graph, numOfNodes, selfLoops, undirected, draw)
         /\ lastOp' = Op("randomGraph",
                         [selfLoops |-> selfLoops, undirected |-> undirected])
  /\ freedKeys' = {}
  /\ UNCHANGED other
  /\ UNCHANGED <<evolveVars, perfVars, simVars, gmlVars, logVars, descVars>>

\* random graphs, their clearing and the loss of an arc
NextRandom == randomGraph \/ clear \/ eraseArc

\* sys1 of examples/systems.cc:61-112: three nodes v1, v2, v3 and the arcs
\* e1 = (v1, v2), e2 = (v2, v3) with the arc dynamics of the program,
\* e3 = (v1, v3)
ExampleSys1 ==
  LET S0 == sysAddArcDynamic(
              sysAddNodeDynamic(EmptySystem, [name |-> "NodeDyn", states |-> 1]),
              [name |-> "ArcDyn", states |-> 1])
      S1 == sysAddNode(S0, << >>, "NoNodeDynamic")
      S2 == sysAddNode(S1, << >>, "NodeDyn")
      S3 == sysAddNode(S2, << >>, "NodeDyn")
      v1 == S1.nodes[1].n
      v2 == S2.nodes[1].n
      v3 == S3.nodes[1].n
  IN  sysAddArc(sysAddArc(sysAddArc(S3, v1, v2, "NoArcDynamic"),
                          v2, v3, "ArcDyn"),
                v1, v3, "NoArcDynamic")

\* a System after addNode, addArc twice on it and erase of the older arc
ErasedArcSys ==
  LET S0 == sysAddArcDynamic(EmptySystem, [name |-> "ArcDyn", states |-> 1])
      S1 == sysAddNode(S0, << >>, "NoNodeDynamic")
      v  == S1.nodes[1].n
      S2 == sysAddArc(sysAddArc(S1, v, v, "ArcDyn"), v, v, "ArcDyn")
  IN  sysEraseArc(S2, S2.arcs[2].a)

\* the Systems copySystem is given
CopySources == {EmptySystem, OtherBuilt[2], ExampleSys1, ErasedArcSys}

\* System sys2; sys2.copySystem(sys1) (examples/systems.cc:132-133)
InitCopy ==
  /\ graph = EmptySystem
  /\ other \in CopySources
  /\ lastOp = Op("System", << >>)
  /\ freedKeys = {}

\* copySystem and the edits of the copy
NextCopy ==
  \/ copySystem \/ AddNode \/ AddArc \/ eraseNode \/ eraseArc
  \/ AddNodeDynamic

(***************************************************************************)
(* System::saveToGML and System::openFromGML (system.cc:131-524) with the  *)
(* scanner of gml.cc.  The file is kept as the values of its node and edge *)
(* records: a key as the digits written, a label as the characters         *)
(* between and including the quotes.  Node names are made of letters.      *)
(***************************************************************************)
\* the names addNode(name, dynamic) is called with
Labels == { << >>, <<"a">>, <<"b", "a">> }

\* fileOut << key: the decimal digits of a key that is not negative
RECURSIVE DigitsOf(_)
DigitsOf(k) == IF k < 10 THEN <<k>> ELSE DigitsOf(k \div 10) \o <<k % 10>>

\* atol of the digits the scanner collected (gml.cc:203-246)
RECURSIVE Atol(_, _)
Atol(digits, acc) ==
  IF digits = << >> THEN acc
  ELSE Atol(Tail(digits), (acc * 10) + Head(digits))

\* fileOut << "\"" << name << "\"" (system.cc:164)
Quoted(name) == <<"\"">> \o name \o <<"\"">>

\* the string token of the scanner (gml.cc:333-411): the characters after
\* the opening quote up to the next quote
RECURSIVE UpToQuote(_)
UpToQuote(chars) ==
  IF chars = << >> \/ Head(chars) = "\"" THEN << >>
  ELSE <<Head(chars)>> \o UpToQuote(Tail(chars))
ScanString(text) == UpToQuote(Tail(text))

\* the place of the node with handle n in NodeIt order
NodePlace(S, n) == CHOOSE p \in 1..nodeCount(S) : S.nodes[p].n = n

\* System::saveToGML (system.cc:131-220): the nodes in NodeIt order with
\* id 0, 1, ..., then the arcs in ArcIt order by the ids of their ends
sysSaveToGML(S) ==
  [written |-> TRUE,
   nodes |-> [p \in 1..nodeCount(S) |->
                [id |-> p - 1,
                 key |-> DigitsOf(S.nodes[p].key),
                 label |-> Quoted(S.nodes[p].name),
                 dynName |-> S.nodes[p].dynamic.name]],
   edges |-> [q \in 1..arcCount(S) |->
                [source |-> NodePlace(S, ArcIt(S)[q].u) - 1,
                 target |-> NodePlace(S, ArcIt(S)[q].v) - 1,
                 dynName |-> ArcIt(S)[q].dynamic.name]]]

\* mNodeDynamics[name] (std::map::operator[], system.cc:428): a name that
\* is not in the map is entered with the null pointer
MapIndex(m, name) ==
  IF name \in DOMAIN m THEN m ELSE (name :> nullDyn) @@ m

\* system.cc:366-440: addNode() for each node record in file order, then
\* its label, key and dynName are read into the NodeData.  id2node lists
\* the handle given to each record.
RECURSIVE LoadNodes(_, _, _, _)
LoadNodes(S, entries, k, id2node) ==
  IF k > Len(entries) THEN [sys |-> S, id2node |-> id2node]
  ELSE LET A == sysAddNode(S, << >>, "NoNodeDynamic")
           M == MapIndex(S.mNodeDynamics, entries[k].dynName)
           v == [A.nodes[1] EXCEPT
                   !.name = ScanString(entries[k].label),
                   !.key = Atol(entries[k].key, 0),
                   !.dynamic = M[entries[k].dynName]]
       IN  LoadNodes([A EXCEPT !.nodes = <<v>> \o Tail(@),
                               !.mNodeDynamics = M],
                     entries, k + 1, Append(id2node, v.n))

\* system.cc:450-457: "make sure the next key is large enough":
\* int curKey = 0; every node is given the key curKey; mNextKey is raised to
\* curKey if it is smaller, then incremented
LoadKeys(S) ==
  LET curKey == 0
  IN  [S EXCEPT !.nodes = [p \in 1..nodeCount(S) |->
                             [S.nodes[p] EXCEPT !.key = curKey]],
                !.mNextKey = (IF @ < curKey THEN curKey ELSE @) + 1]

\* system.cc:459-519: addArc(source, target) for each edge record, then
\* its dynName is read into the ArcData
RECURSIVE LoadEdges(_, _, _, _)
LoadEdges(S, entries, k, id2node) ==
  IF k > Len(entries) THEN S
  ELSE LET A == sysAddArc(S, id2node[entries[k].source + 1],
                          id2node[entries[k].target + 1], "NoArcDynamic")
           M == MapIndex(S.mArcDynamics, entries[k].dynName)
           e == [A.arcs[1] EXCEPT !.dynamic = M[entries[k].dynName]]
       IN  LoadEdges([A EXCEPT !.arcs = <<e>> \o Tail(@),
                               !.mArcDynamics = M],
                     entries, k + 1, id2node)

\* System::openFromGML (system.cc:222-524); the graph is not cleared first
sysOpenFromGML(S, file) ==
  LET N == LoadNodes(S, file.nodes, 1, << >>)
  IN  sysRefreshStateIDs(LoadEdges(LoadKeys(N.sys), file.edges, 1, N.id2node))

\* the value openFromGML returns (system.cc:229-243, 526-528): 1 when the
\* file does not open, 0 after the graph is built
openFromGMLReturn(file) == IF file.written THEN 0 ELSE 1

\* the dynamics names of the node records of a file
FileDynNames(file) == { file.nodes[k].dynName : k \in 1..Len(file.nodes) }

\* no file yet
NoFile == [written |-> FALSE, nodes |-> << >>, edges |-> << >>]

\* two Systems; the second has the descriptors of the first registered
\* (examples/systems.cc:61, 163-166) or none
InitGML ==
  /\ graph \in RegisteredSystems
  /\ other \in {graph, EmptySystem}
  /\ lastOp = Op("System", << >>)
  /\ freedKeys = {}
  /\ gmlFile = NoFile

IdleGML == gmlFile = NoFile

\* addNode(name, dynamic) (system.cc:70-74)
AddNodeNamed ==
  /\ nodeCount(graph) < MaxSysNodes
  /\ graph.mNextKey < MaxKey
  /\ \E name \in Labels \ {<< >>}, dynamic \in DOMAIN graph.mNodeDynamics :
       /\ graph' = sysAddNode(graph, name, dynamic)
       /\ lastOp' = Op("addNode", << >>)
  /\ UNCHANGED <<other, freedKeys>>
  /\ UNCHANGED <<evolveVars, perfVars, simVars, gmlVars, logVars, descVars>>

\* graph.saveToGML on a file that opens
saveToGML ==
  /\ gmlFile' = sysSaveToGML(graph)
  /\ lastOp' = Op("saveToGML", << >>)
  /\ UNCHANGED <<graph, other, freedKeys>>
  /\ UNCHANGED <<evolveVars, perfVars, simVars, logVars, descVars>>

\* other.openFromGML of the file written; lastOp tells whether other was
\* empty and held the node dynamics of graph, the names of the file that
\* other had not registered, and the value returned
openFromGML ==
  /\ gmlFile.written
  /\ nodeCount(other) + Len(gmlFile.nodes) <= MaxSysNodes
  /\ arcCount(other) + Len(gmlFile.edges) <= MaxSysArcs
  /\ other.mNextKey + Len(gmlFile.nodes) <= MaxKey
  /\ other' = sysOpenFromGML(other, gmlFile)
  /\ lastOp' = Op("openFromGML",
                  [fresh |-> nodeCount(other) = 0 /\ arcCount(other) = 0
                             /\ other.mNodeDynamics = graph.mNodeDynamics,
                   unknown |-> FileDynNames(gmlFile)
                                 \ DOMAIN other.mNodeDynamics,
                   ret |-> openFromGMLReturn(gmlFile)])
  /\ UNCHANGED <<graph, freedKeys, gmlFile>>
  /\ UNCHANGED <<evolveVars, perfVars, simVars, logVars, descVars>>

\* other.clear()
clearOther ==
  /\ other' = sysClear(other)
  /\ lastOp' = Op("clear", << >>)
  /\ UNCHANGED <<graph, freedKeys>>
  /\ UNCHANGED <<evolveVars, perfVars, simVars, gmlVars, logVars, descVars>>

\* the program builds graph before it writes the file
\* (examples/systems.cc:90-157)
BuildAddNode == ~gmlFile.written /\ AddNode
BuildAddNodeNamed == ~gmlFile.written /\ AddNodeNamed
BuildAddArc == ~gmlFile.written /\ AddArc
BuildEraseNode == ~gmlFile.written /\ eraseNode

\* the round trip: the program builds graph, writes it and reads the file
\* into other
NextGML ==
  \/ BuildAddNode \/ BuildAddNodeNamed \/ BuildAddArc \/ BuildEraseNode
  \/ saveToGML \/ openFromGML \/ clearOther

(***************************************************************************)
(* ChangeLogSet (system.h:444-466, system.cc:728-790): a list of          *)
(* sub-loggers and ten hooks that share one loop,                          *)
(*   for (int i=0; mLoggers.size(); ++i) { mLoggers[i]->hook(...); }       *)
(* whose condition is the size of the list.                                *)
(***************************************************************************)
MaxLoggers == 2   \* sub-loggers registered: 0..MaxLoggers
MaxStray   == 2   \* slots past the end of mLoggers the loop is followed over

\* the hooks of a ChangeLog (system.h:427-441); erase and update each
\* stand for their Node and their Arc form
Hooks == {"addNode", "addArc", "erase", "update", "newState", "endStep",
          "rollback", "commit"}

InitSet ==
  /\ mLoggers = << >>
  /\ setPc = "idle"
  /\ setHook = "none"
  /\ setI = 0
  /\ subCalls = << >>

\* ChangeLogSet::addChangeLog (system.cc:728-730)
addChangeLog ==
  /\ setPc \in {"idle", "returned"}
  /\ Len(mLoggers) < MaxLoggers
  /\ mLoggers' = Append(mLoggers, Len(mLoggers) + 1)
  /\ setPc' = "idle"
  /\ UNCHANGED <<setHook, setI, subCalls>>
  /\ UNCHANGED <<evolveVars, perfVars, simVars, sysVars, gmlVars, streamVars, descVars>>

\* a hook of the set is called: int i=0
SetHookCall ==
  /\ setPc \in {"idle", "returned"}
  /\ \E h \in Hooks : setHook' = h
  /\ setI' = 0
  /\ subCalls' = << >>
  /\ setPc' = "loop"
  /\ UNCHANGED mLoggers
  /\ UNCHANGED <<evolveVars, perfVars, simVars, sysVars, gmlVars, streamVars, descVars>>

\* the condition of the loop
LoopCondition(loggers, k) == Len(loggers) # 0

\* the condition is false: the hook returns
SetHookReturn ==
  /\ setPc = "loop"
  /\ ~LoopCondition(mLoggers, setI)
  /\ setPc' = "returned"
  /\ UNCHANGED <<mLoggers, setHook, setI, subCalls>>
  /\ UNCHANGED <<evolveVars, perfVars, simVars, sysVars, gmlVars, streamVars, descVars>>

\* the body with i inside the list: mLoggers[i]->hook(...), then ++i
SetHookStep ==
  /\ setPc = "loop"
  /\ LoopCondition(mLoggers, setI)
  /\ setI < Len(mLoggers)
  /\ subCalls' = Append(subCalls, setI)
  /\ setI' = setI + 1
  /\ UNCHANGED <<mLoggers, setPc, setHook>>
  /\ UNCHANGED <<evolveVars, perfVars, simVars, sysVars, gmlVars, streamVars, descVars>>

\* the body with i past the end of the list: mLoggers[i] reads outside the
\* vector and the hook is called through what is found there.  The call
\* may end the program, or come back and let the loop go on.
SetHookStray ==
  /\ setPc = "loop"
  /\ LoopCondition(mLoggers, setI)
  /\ setI >= Len(mLoggers)
  /\ subCalls' = Append(subCalls, setI)
  /\ \/ setPc' = "crashed" /\ setI' = setI
     \/ /\ setI < Len(mLoggers) + MaxStray - 1
        /\ setPc' = "loop" /\ setI' = setI + 1
  /\ UNCHANGED <<mLoggers, setHook>>
  /\ UNCHANGED <<evolveVars, perfVars, simVars, sysVars, gmlVars, streamVars, descVars>>

NextSet ==
  \/ addChangeLog \/ SetHookCall \/ SetHookReturn \/ SetHookStep
  \/ SetHookStray

(***************************************************************************)
(* ChangeLogToStream (system.h:468-487, system.cc:792-879): the record     *)
(* hooks append lines to a buffer, commit writes the buffer to the output  *)
(* stream and clears it, rollback clears it.  A line is kept as the tuple  *)
(* of its comma-separated fields.                                          *)
(***************************************************************************)
MaxBuffer == 2   \* lines in the buffer
MaxSink   == 2   \* lines in the output stream

\* the System the hooks are handed: one node with a one-state dynamics and
\* key 1, one arc at it with a one-state dynamics, the state ids refreshed
LogSys ==
  LET S0 == sysAddArcDynamic(
              sysAddNodeDynamic(EmptySystem, [name |-> "NodeDyn", states |-> 1]),
              [name |-> "ArcDyn", states |-> 1])
      S1 == sysAddNode(sysAddNode(S0, << >>, "NoNodeDynamic"), << >>, "NodeDyn")
      S2 == sysEraseNode(S1, S1.nodes[2].n)
  IN  sysRefreshStateIDs(sysAddArc(S2, S2.nodes[1].n, S2.nodes[1].n, "ArcDyn"))

\* sys.nodeData(n).key of the node with handle n
KeyOf(S, n) == S.nodes[NodePlace(S, n)].key

\* system.cc:792-818: the line of each structure hook
LineNode(tag, S, n) == <<tag, KeyOf(S, n)>>
LineArc(tag, S, u, v) == <<tag, KeyOf(S, u), KeyOf(S, v)>>

\* the entries stateIndex .. stateIndex + width - 1 of a State
Slice(x, stateIndex, width) == [k \in 1..width |-> x[stateIndex + k]]

\* ChangeLogToStream::newState (system.cc:820-846): an NS line per node when
\* the node width is positive, then an ES line per arc when the arc width is
LinesNewState(S, x) ==
  (IF S.mNodeStates > 0
   THEN [p \in 1..nodeCount(S) |->
           <<"NS", S.nodes[p].key>> \o Slice(x, stateIDNode(S, p), S.mNodeStates)]
   ELSE << >>)
  \o
  (IF S.mArcStates > 0
   THEN [q \in 1..arcCount(S) |->
           <<"ES", KeyOf(S, ArcIt(S)[q].u), KeyOf(S, ArcIt(S)[q].v)>>
           \o Slice(x, stateIDArc(S, PlaceOf(S.arcs, ArcIt(S)[q].a)), S.mArcStates)]
   ELSE << >>)

\* ChangeLogToStream::endStep (system.cc:848-863)
LinesEndStep(stepType) ==
  CASE stepType = "INIT_STEP" -> << <<"---">> >>
    [] stepType = "SIM_STEP"  -> << <<"-">> >>
    [] stepType = "EVO_STEP"  -> << <<"--">> >>
    [] OTHER                  -> << >>

StepTypes == {"INIT_STEP", "SIM_STEP", "EVO_STEP"}

\* ChangeLogToStream::rollback (system.cc:865-870): buffer.clear();
\* buffer.str("")
streamRollbackKeeps(buf) == buf
streamRollback(buf) == << >>

InitStream ==
  /\ buffer = << >>
  /\ mOut = << >>
  /\ streamOp = "none"
  /\ expected = << >>
  /\ rolledBack = FALSE
  /\ origin = << >>

\* a record hook appends its lines to the buffer
Record(hook, lines) ==
  /\ Len(buffer) + Len(lines) <= MaxBuffer
  /\ buffer' = buffer \o lines
  /\ streamOp' = hook
  /\ UNCHANGED <<mOut, expected, rolledBack, origin>>

\* addNode(sys, n)
StreamAddNode ==
  /\ \E n \in NodeHandles(LogSys) :
       Record("addNode", <<LineNode("N+", LogSys, n)>>)
  /\ UNCHANGED <<evolveVars, perfVars, simVars, sysVars, gmlVars, setVars, descVars>>

\* addArc(sys, source, target)
StreamAddArc ==
  /\ \E u \in NodeHandles(LogSys), v \in NodeHandles(LogSys) :
       Record("addArc", <<LineArc("E+", LogSys, u, v)>>)
  /\ UNCHANGED <<evolveVars, perfVars, simVars, sysVars, gmlVars, setVars, descVars>>

\* erase(sys, n), erase(sys, e)
StreamErase ==
  /\ \E lines \in
         { <<LineNode("N-", LogSys, n)>> : n \in NodeHandles(LogSys) } \cup
         { <<LineArc("E-", LogSys, LogSys.arcs[q].u, LogSys.arcs[q].v)>> :
             q \in 1..arcCount(LogSys) } :
       Record("erase", lines)
  /\ UNCHANGED <<evolveVars, perfVars, simVars, sysVars, gmlVars, setVars, descVars>>

\* update(sys, n), update(sys, e)
StreamUpdate ==
  /\ \E lines \in
         { <<LineNode("NU", LogSys, n)>> : n \in NodeHandles(LogSys) } \cup
         { <<LineArc("EU", LogSys, LogSys.arcs[q].u, LogSys.arcs[q].v)>> :
             q \in 1..arcCount(LogSys) } :
       Record("update", lines)
  /\ UNCHANGED <<evolveVars, perfVars, simVars, sysVars, gmlVars, setVars, descVars>>

\* newState(sys, newState)
StreamNewState ==
  /\ \E x \in VectorsOfLen(sysTotalStates(LogSys)) :
       Record("newState", LinesNewState(LogSys, x))
  /\ UNCHANGED <<evolveVars, perfVars, simVars, sysVars, gmlVars, setVars, descVars>>

\* endStep(stepType)
StreamEndStep ==
  /\ \E stepType \in StepTypes : Record("endStep", LinesEndStep(stepType))
  /\ UNCHANGED <<evolveVars, perfVars, simVars, sysVars, gmlVars, setVars, descVars>>

\* ChangeLogToStream::rollback
StreamRollback ==
  /\ buffer' = streamRollback(buffer)
  /\ streamOp' = "rollback"
  /\ rolledBack' = (rolledBack \/ buffer # << >>)
  /\ UNCHANGED <<mOut, expected, origin>>
  /\ UNCHANGED <<evolveVars, perfVars, simVars, sysVars, gmlVars, setVars, descVars>>

\* ChangeLogToStream::commit (system.cc:872-879): mOut << buffer.str(), then
\* rollback()
StreamCommit ==
  /\ Len(mOut) + Len(buffer) <= MaxSink
  /\ mOut' = mOut \o buffer
  /\ buffer' = streamRollback(buffer)
  /\ streamOp' = "commit"
  /\ expected' = expected \o buffer
  /\ UNCHANGED <<rolledBack, origin>>
  /\ UNCHANGED <<evolveVars, perfVars, simVars, sysVars, gmlVars, setVars, descVars>>

\* the caller commits the log after evolve returned
CallerCommit ==
  /\ pc = "done"
  /\ StreamCommit

\* a run of evolve with a reporting mutator, and the caller's commit
NextEvoLog ==
  \/ EvolveStart \/ BootTrial \/ BootEnd \/ BootEndUninit
  \/ OuterCheck \/ InnerBreak \/ InnerTrial \/ OuterEnd
  \/ CallerCommit

NextStream ==
  \/ StreamAddNode \/ StreamAddArc \/ StreamErase \/ StreamUpdate
  \/ StreamNewState \/ StreamEndStep \/ StreamRollback \/ StreamCommit

(***************************************************************************)
(* Ownership of the dynamics descriptors (system.h:164-193, 272-325).      *)
(* A System allocates its NoNodeDynamic and NoArcDynamic when it is        *)
(* constructed and deletes them in its destructor; its registries and its  *)
(* nodes and arcs hold pointers to descriptors.  Descriptors handed to     *)
(* addNodeDynamic belong to the caller and are never deleted here.         *)
(***************************************************************************)
MaxSystems == 4   \* System objects alive at one time
MaxGen     == 1   \* times a place in memory is used for a System
MaxOwned   == 2   \* Systems the caller builds itself

Slots == 1..MaxSystems

\* the descriptor of kind k that the g-th System built at place s allocated
Addr(s, g, k) == [slot |-> s, gen |-> g, kind |-> k]

\* a NodeDynamic of the caller
UserDyn == [slot |-> 0, gen |-> 0, kind |-> "node"]

NoObj == [alive |-> FALSE, gen |-> 0, nodeReg |-> << >>, arcReg |-> << >>,
          used |-> {}]

RangeOf(f) == { f[x] : x \in DOMAIN f }

\* noNodeDyn and noArcDyn of the System at s
Own(o, s) == {Addr(s, o[s].gen, "node"), Addr(s, o[s].gen, "arc")}

\* every descriptor the System at s points to
Refs(o, s) == RangeOf(o[s].nodeReg) \cup RangeOf(o[s].arcReg) \cup o[s].used

\* System::System (system.h:167-182)
descNew(W, s) ==
  LET g == W.objs[s].gen + 1
  IN  [objs |-> [W.objs EXCEPT ![s] =
                   [alive |-> TRUE, gen |-> g,
                    nodeReg |-> ("NoNodeDynamic" :> Addr(s, g, "node")),
                    arcReg  |-> ("NoArcDynamic" :> Addr(s, g, "arc")),
                    used |-> {}]],
       live |-> W.live \cup {Addr(s, g, "node"), Addr(s, g, "arc")}]

\* System::~System (system.h:186-193): delete noNodeDyn; delete noArcDyn
descDelete(W, s) ==
  [objs |-> [W.objs EXCEPT ![s] = [NoObj EXCEPT !.gen = W.objs[s].gen]],
   live |-> W.live \ Own(W.objs, s)]

\* System::copySystem (system.h:272-325): the registries are assigned from
\* `from` and every node and arc takes the dynamic pointer of its original
descCopy(W, to, from) ==
  [W EXCEPT !.objs[to].nodeReg = W.objs[from].nodeReg,
            !.objs[to].arcReg  = W.objs[from].arcReg,
            !.objs[to].used    = W.objs[from].used]

\* addNode(name) and addArc(u, v, name) store the registry's pointer
descUse(W, s, d) == [W EXCEPT !.objs[s].used = @ \cup {d}]

\* the place the next System is built at
CanBuild(o) == \E s \in Slots : ~o[s].alive /\ o[s].gen < MaxGen
FreeSlot(o) ==
  CHOOSE s \in Slots :
    /\ ~o[s].alive /\ o[s].gen < MaxGen
    /\ \A t \in Slots : (~o[t].alive /\ o[t].gen < MaxGen) => s <= t

World == [objs |-> objs, live |-> liveDesc]
NoEvolve == [phase |-> "idle", sys |-> 0, cur |-> 0, tmp |-> 0, new |-> 0]

IdleDesc ==
  /\ objs = [s \in Slots |-> NoObj]
  /\ liveDesc = {UserDyn}
  /\ evo = NoEvolve

InitDesc == IdleDesc

DescFrame ==
  UNCHANGED <<evolveVars, perfVars, simVars, sysVars, gmlVars, logVars>>

\* System s;
DescNewSystem ==
  /\ evo.phase = "idle"
  /\ CanBuild(objs)
  /\ Cardinality({s \in Slots : objs[s].alive}) < MaxOwned
  /\ LET W == descNew(World, FreeSlot(objs))
     IN  objs' = W.objs /\ liveDesc' = W.live
  /\ UNCHANGED evo
  /\ DescFrame

\* the System at s goes out of scope or is deleted by the caller
DescDeleteSystem ==
  /\ evo.phase = "idle"
  /\ \E s \in Slots :
       /\ objs[s].alive
       /\ LET W == descDelete(World, s)
          IN  objs' = W.objs /\ liveDesc' = W.live
  /\ UNCHANGED evo
  /\ DescFrame

\* addNodeDynamic(&userDyn) (system.cc:45-48): insert keeps an older entry
DescAddNodeDynamic ==
  /\ evo.phase = "idle"
  /\ \E s \in Slots :
       /\ objs[s].alive
       /\ "User" \notin DOMAIN objs[s].nodeReg
       /\ objs' = [objs EXCEPT ![s].nodeReg = ("User" :> UserDyn) @@ @]
  /\ UNCHANGED <<liveDesc, evo>>
  /\ DescFrame

\* addNode(name) (system.cc:55-68)
DescAddNode ==
  /\ evo.phase = "idle"
  /\ \E s \in Slots :
       /\ objs[s].alive
       /\ \E name \in DOMAIN objs[s].nodeReg :
            objs' = descUse(World, s, objs[s].nodeReg[name]).objs
  /\ UNCHANGED <<liveDesc, evo>>
  /\ DescFrame

\* addArc(u, v, name) (system.cc:70-85) between nodes of the System
DescAddArc ==
  /\ evo.phase = "idle"
  /\ \E s \in Slots :
       /\ objs[s].alive
       /\ \E d \in objs[s].used : d.kind = "node"
       /\ \E name \in DOMAIN objs[s].arcReg :
            objs' = descUse(World, s, objs[s].arcReg[name]).objs
  /\ UNCHANGED <<liveDesc, evo>>
  /\ DescFrame

\* to.copySystem(from)
DescCopySystem ==
  /\ evo.phase = "idle"
  /\ \E to \in Slots, from \in Slots :
       /\ to # from /\ objs[to].alive /\ objs[from].alive
       /\ objs' = descCopy(World, to, from).objs
  /\ UNCHANGED <<liveDesc, evo>>
  /\ DescFrame

\* evolve_sa.cc:36-41: curSys = new System(); curSys->copySystem(sys);
\* tempSys = curSys
EvoStart ==
  /\ evo.phase = "idle"
  /\ CanBuild(objs)
  /\ \E s \in Slots :
       /\ objs[s].alive
       /\ LET c == FreeSlot(objs)
              W == descCopy(descNew(World, c), c, s)
          IN  /\ objs' = W.objs /\ liveDesc' = W.live
              /\ evo' = [phase |-> "boot", sys |-> s, cur |-> c, tmp |-> c,
                         new |-> 0]
  /\ DescFrame

\* trial (evolve_sa.cc:148-155): newSys = new System();
\* newSys->copySystem(from); the mutation may add an arc, which takes the
\* pointer the clone's registry holds for NoArcDynamic
descTrial(W, n, from, adds) ==
  LET C == descCopy(descNew(W, n), n, from)
  IN  IF adds THEN descUse(C, n, C.objs[n].arcReg["NoArcDynamic"]) ELSE C

\* evolve_sa.cc:63-79: a bootstrap trial; the clone before it is deleted
\* from the second trial on
EvoBootTrial ==
  /\ evo.phase = "boot"
  /\ CanBuild(objs)
  /\ \E adds \in BOOLEAN :
       LET n  == FreeSlot(objs)
           W1 == descTrial(World, n, evo.tmp, adds)
           W2 == IF evo.tmp # evo.cur THEN descDelete(W1, evo.tmp) ELSE W1
       IN  /\ objs' = W2.objs /\ liveDesc' = W2.live
           /\ evo' = [evo EXCEPT !.tmp = n, !.new = n]
  /\ DescFrame

\* evolve_sa.cc:82: delete(newSys) after the bootstrap trials
EvoBootEnd ==
  /\ evo.phase = "boot"
  /\ evo.new # 0
  /\ LET W == descDelete(World, evo.new)
     IN  objs' = W.objs /\ liveDesc' = W.live
  /\ evo' = [evo EXCEPT !.phase = "cool", !.tmp = 0, !.new = 0]
  /\ DescFrame

\* evolve_sa.cc:82 with initialTrials = 0: newSys is indeterminate; the
\* delete does nothing or aborts the run
EvoBootEndUninit ==
  /\ evo.phase = "boot"
  /\ evo.new = 0
  /\ \E ph \in {"cool", "crashed"} : evo' = [evo EXCEPT !.phase = ph, !.tmp = 0]
  /\ UNCHANGED <<objs, liveDesc>>
  /\ DescFrame

\* evolve_sa.cc:110-122: a trial of the cooling loop; the accepted clone
\* replaces curSys, which is deleted, a rejected clone is deleted
EvoTrial ==
  /\ evo.phase = "cool"
  /\ CanBuild(objs)
  /\ \E adds \in BOOLEAN, a \in BOOLEAN :
       LET n  == FreeSlot(objs)
           W1 == descTrial(World, n, evo.cur, adds)
           W2 == descDelete(W1, IF a THEN evo.cur ELSE n)
       IN  /\ objs' = W2.objs /\ liveDesc' = W2.live
           /\ evo' = [evo EXCEPT !.cur = IF a THEN n ELSE evo.cur, !.new = n]
  /\ DescFrame

\* evolve_sa.cc:139: return curSys; the caller owns it from here
EvoReturn ==
  /\ evo.phase = "cool"
  /\ evo' = NoEvolve
  /\ UNCHANGED <<objs, liveDesc>>
  /\ DescFrame

NextDesc ==
  \/ DescNewSystem \/ DescDeleteSystem \/ DescAddNodeDynamic \/ DescAddNode
  \/ DescAddArc \/ DescCopySystem
  \/ EvoStart \/ EvoBootTrial \/ EvoBootEnd \/ EvoBootEndUninit
  \/ EvoTrial \/ EvoReturn

(***************************************************************************)
(* The specifications.                                                     *)
(***************************************************************************)
IdleEvolve ==
  /\ mParams = CHOOSE p \in ParamSpace : TRUE
  /\ mMut = "silent"
  /\ sys = {}
  /\ heap = << >>
  /\ curSys = 0 /\ newSys = 0 /\ tempSys = 0
  /\ iteration = 0 /\ i = 0 /\ accepts = 0 /\ noChange = 0
  /\ temp = [m |-> StartTemp, k |-> 0]
  /\ minQ = 0 /\ maxQ = 0
  /\ result = [Q1 |-> 0, Q2 |-> 0, dQ |-> 0, a |-> FALSE]
  /\ pc = "idle"
  /\ obsCall = [g |-> {}, perf |-> 0, t |-> 0]
  /\ obsCount = 0
  /\ lastTrial = NoTrial
  /\ streak = 0
  /\ badFree = 0

IdlePerf ==
  /\ pType = "TOPOLOGY_ONLY"
  /\ initialConds = << >>
  /\ qSum = 0 /\ perf = BadPerf /\ simIdx = 0 /\ scores = << >>
  /\ simRuns = << >>
  /\ pcP = "idle"

IdleSim == InitSim

IdleSys ==
  /\ graph = EmptySystem
  /\ other = EmptySystem
  /\ lastOp = Op("System", << >>)
  /\ freedKeys = {}

\* no part of the change log is in use
IdleLog == InitSet /\ InitStream

InitSpecEvolve == InitEvolve /\ IdlePerf /\ IdleSim /\ IdleSys /\ IdleGML /\ IdleLog /\ IdleDesc
InitSpecPerf   == IdleEvolve /\ InitPerf /\ IdleSim /\ IdleSys /\ IdleGML /\ IdleLog /\ IdleDesc
InitSpecSim    == IdleEvolve /\ IdlePerf /\ InitSim /\ IdleSys /\ IdleGML /\ IdleLog /\ IdleDesc
InitSpecSys    == IdleEvolve /\ IdlePerf /\ IdleSim /\ InitSys /\ IdleGML /\ IdleLog /\ IdleDesc
InitSpecIds    == IdleEvolve /\ IdlePerf /\ IdleSim /\ InitIds /\ IdleGML /\ IdleLog /\ IdleDesc
InitSpecGML    == IdleEvolve /\ IdlePerf /\ IdleSim /\ InitGML /\ IdleLog /\ IdleDesc
InitSpecCopy   == IdleEvolve /\ IdlePerf /\ IdleSim /\ InitCopy /\ IdleGML /\ IdleLog /\ IdleDesc
InitSpecTrial  == InitTrial /\ IdlePerf /\ IdleSim /\ IdleSys /\ IdleGML /\ IdleLog /\ IdleDesc
InitSpecRandom == IdleEvolve /\ IdlePerf /\ IdleSim /\ InitIds /\ IdleGML /\ IdleLog /\ IdleDesc
InitSpecDesc   == IdleEvolve /\ IdlePerf /\ IdleSim /\ IdleSys /\ IdleGML /\ IdleLog /\ InitDesc
InitSpecEvoLog == InitEvoLog /\ IdlePerf /\ IdleSim /\ IdleSys /\ IdleGML /\ IdleLog /\ IdleDesc
InitSpecSet    == IdleEvolve /\ IdlePerf /\ IdleSim /\ IdleSys /\ IdleGML /\ InitSet /\ InitStream /\ IdleDesc
InitSpecStream == IdleEvolve /\ IdlePerf /\ IdleSim /\ IdleSys /\ IdleGML /\ InitSet /\ InitStream /\ IdleDesc

SpecEvolve == InitSpecEvolve /\ [][NextEvolve]_vars
\* evolve() runs to completion: a step that is enabled is taken
FairEvolve == SpecEvolve /\ WF_vars(NextEvolve)
SpecPerf   == InitSpecPerf /\ [][NextPerf]_vars
SpecSim    == InitSpecSim /\ [][NextSim]_vars
SpecIds    == InitSpecIds /\ [][NextIds]_vars
SpecReg    == InitSpecSys /\ [][NextReg]_vars
SpecKeys   == InitSpecSys /\ [][NextKeys]_vars
SpecGML    == InitSpecGML /\ [][NextGML]_vars
SpecCopy   == InitSpecCopy /\ [][NextCopy]_vars
SpecSet    == InitSpecSet /\ [][NextSet]_vars
SpecRandom == InitSpecRandom /\ [][NextRandom]_vars
SpecDesc   == InitSpecDesc /\ [][NextDesc]_vars
SpecEvoLog == InitSpecEvoLog /\ [][NextEvoLog]_vars
SpecTrial  == InitSpecTrial /\ [][NextTrial]_vars
SpecStream == InitSpecStream /\ [][NextStream]_vars

Init == InitSpecEvolve
Next == NextEvolve
Spec == SpecEvolve

(***************************************************************************)
(* Properties of EvolveSA::evolve.                                         *)
(***************************************************************************)
InLoop == pc \in {"outer", "inner", "outerEnd"}

\* C1: in every trial that reaches the acceptance test, the score Q2 compared
\* with Q1 is the Performance score of the mutated clone of that trial.
Claim_C1 == lastTrial.scored => lastTrial.Q2 = lastTrial.cloneScore

\* C2: with a topology-only measure and the count-preserving rewiring
\* mutator, the graph evolve() returns scores no more than the input graph.
Claim_C2 ==
  pc = "done" => performanceTopology(heap[curSys]) <= performanceTopology(sys)

\* C3: at every call of the evolution observer the score argument is the
\* Performance score of the graph argument.
Claim_C3 == obsCount > 0 => obsCall.perf = performanceTopology(obsCall.g)

\* C4: the body of the cooling loop is never entered once the number of
\* consecutive outer iterations without an acceptance exceeds
\* acceptRunsNoChange.
Claim_C4 == pc = "inner" => streak <= mParams.acceptRunsNoChange

\* C5: with ensureWeaklyConnected, a trial whose clone has a component count
\* other than 1 leaves the accept flag false, and its clone is not the
\* incumbent.
Thm_C5 ==
  (mParams.ensureWeaklyConnected /\ lastTrial.phase # "none" /\ lastTrial.cloneWCC # 1)
    => (~result.a /\ curSys # lastTrial.id)

\* a disconnected clone that scores better than the incumbent was tried in
\* the cooling loop under the guard
Wit_C5 ==
  /\ mParams.ensureWeaklyConnected
  /\ lastTrial.phase = "cool"
  /\ lastTrial.cloneWCC # 1
  /\ lastTrial.cloneScore < performanceTopology(heap[curSys])

\* C6: with acceptProb always 1 and ensureWeaklyConnected = false, every
\* trial of the cooling loop is accepted and its clone is the incumbent.
Thm_C6 ==
  (mParams.probMode = "one" /\ ~mParams.ensureWeaklyConnected /\ lastTrial.phase = "cool")
    => (result.a /\ curSys = lastTrial.id)

\* a cooling-loop trial without improvement (dQ <= 0) was accepted under the
\* override
Wit_C6 ==
  /\ mParams.probMode = "one" /\ ~mParams.ensureWeaklyConnected
  /\ lastTrial.phase = "cool"
  /\ result.dQ <= 0
  /\ result.a

\* C7: a run started with mainTrials >= 1, or with mainTrials = 0 and
\* minTemp > 0, leaves the cooling loop and returns a graph.
Claim_C7 ==
  (pc = "start" /\ (mParams.mainTrials >= 1 \/ mParams.minTemp > 0)) ~> (pc = "done")

\* the cooling loop by itself: once entered under the same parameters it is
\* left
LoopLeft ==
  (InLoop /\ (mParams.mainTrials >= 1 \/ mParams.minTemp > 0)) ~> (pc = "done")

\* C8: the engine never hands delete a pointer that names no live clone of
\* its own, and on return the incumbent is the only clone still live.
Claim_C8 == badFree = 0 /\ (pc = "done" => DOMAIN heap = {curSys})

(***************************************************************************)
(* Properties of EvolveSA::performance.                                    *)
(***************************************************************************)
\* C9: for a measure that depends on the dynamics, performance() returns the
\* start value 100000000000 when no initial-state vector is supplied and
\* otherwise the exact mean of the k scores: k times the result is their sum.
Claim_C9 ==
  (pcP = "done" /\ pType # "TOPOLOGY_ONLY") =>
    IF Len(initialConds) = 0
    THEN perf = BadPerf
    ELSE ~perf.bad /\ perf.q * Len(initialConds) = SumSeq(scores)

\* C11: when the initial-state source hands performance() a vector whose
\* length differs from totalStates of the System, the Performance measure
\* is not called on the empty trajectory the refused simulation leaves.
Claim_C11 ==
  \A k \in 1..Len(simRuns) : simRuns[k].mismatch => ~simRuns[k].scored

(***************************************************************************)
(* Properties of the simulators.                                           *)
(***************************************************************************)
\* C10: a simulate call of any of the four simulators whose initial vector
\* has a length other than totalStates calls neither the observer nor a hook
\* of the change log, leaves the indices of the System as they were and
\* leaves the initial vector unchanged.
Thm_C10 ==
  (lastSim.kind # "none" /\ lastSim.mismatch) =>
    /\ simLog = << >>
    /\ simSys = lastSim.sysBefore
    /\ initial = lastSim.before

\* an adaptive-ODE call with a vector one entry short, on a System that has
\* states and whose indices a refresh would renumber
Wit_C10 ==
  /\ lastSim.kind = "SimulateOdeAdaptive"
  /\ lastSim.mismatch
  /\ totalStates(simSys) = Len(initial) + 1
  /\ Len(initial) > 0
  /\ ~validStateIDs(simSys)
  /\ refreshStateIDs(simSys) # simSys

\* the observer calls of the latest simulate call, in order
ObsCalls == SelectSeq(simLog, LAMBDA c : c.call = "obs")

\* C12: in every simulator each sample makes exactly the calls
\* newState(sys, state), endStep(SIM_STEP), commit(), obs(state, t) in that
\* order with one and the same state, and nothing else is called between
\* two samples: the log of a call is a sequence of such blocks of four.
Thm_C12 ==
  /\ Len(simLog) % 4 = 0
  /\ \A k \in 0..((Len(simLog) \div 4) - 1) :
       /\ simLog[(4 * k) + 1].call = "newState"
       /\ simLog[(4 * k) + 2].call = "endStep"
       /\ simLog[(4 * k) + 2].type = "SIM_STEP"
       /\ simLog[(4 * k) + 3].call = "commit"
       /\ simLog[(4 * k) + 4].call = "obs"
       /\ simLog[(4 * k) + 4].state = simLog[(4 * k) + 1].state

\* a constant-step ODE call that emitted two samples with different states
Wit_C12 ==
  /\ lastSim.kind = "SimulateOdeConst"
  /\ Len(simLog) = 8
  /\ simLog[1].state # simLog[5].state

\* C13: SimulateMap::simulate with a vector of the right size and
\* tMax >= 0 emits exactly floor(tMax)+1 samples, at the times
\* 0, 1, ..., floor(tMax) in this order; on a System without states every
\* sample is the empty vector and the initial vector stays empty.
Thm_C13 ==
  (lastSim.kind = "SimulateMap" /\ ~lastSim.mismatch /\ lastSim.tMax >= 0) =>
    /\ Len(ObsCalls) = (lastSim.tMax \div TDen) + 1
    /\ Len(simLog) = 4 * Len(ObsCalls)
    /\ \A k \in 1..Len(ObsCalls) : ObsCalls[k].t = k - 1
    /\ totalStates(lastSim.sysBefore) = 0 =>
         /\ initial = << >>
         /\ \A k \in 1..Len(ObsCalls) : ObsCalls[k].state = << >>

\* a map call with tMax = 1 + 1/TDen on a System with a node and no state
Wit_C13 ==
  /\ lastSim.kind = "SimulateMap"
  /\ ~lastSim.mismatch
  /\ lastSim.tMax = TDen + 1
  /\ countNodes(simSys) > 0
  /\ totalStates(simSys) = 0
  /\ Len(ObsCalls) = 2

\* every node's dynamics writes the whole slot of the node
AllSlotsWritten(S) ==
  \A p \in 1..countNodes(S) : getStates(S.nodes[p]) = S.mNodeStates

\* C14: in SimulateMap::simulate, when every dynamics writes all entries of
\* its slot, each sample after the first is what System::operator() makes of
\* the sample before it, and on return the caller's vector is the last
\* sample, whatever the parity of the number of steps.
Thm_C14 ==
  (lastSim.kind = "SimulateMap" /\ ~lastSim.mismatch /\ AllSlotsWritten(simSys)) =>
    /\ \A k \in 2..Len(ObsCalls) :
         ObsCalls[k].state =
           Evaluate(simSys, ObsCalls[k - 1].state, ObsCalls[k - 1].state)
    /\ initial = ObsCalls[Len(ObsCalls)].state

\* a map call of two steps on a System with states, all slots written
Wit_C14 ==
  /\ lastSim.kind = "SimulateMap"
  /\ ~lastSim.mismatch
  /\ AllSlotsWritten(simSys)
  /\ totalStates(simSys) > 0
  /\ Len(ObsCalls) = 3
  /\ ObsCalls[2].state # ObsCalls[3].state

(***************************************************************************)
(* Properties of the System.                                               *)
(***************************************************************************)
\* the entries of a State that belong to the p-th node and to the q-th arc
NodeSlot(S, p) == { stateIDNode(S, p) + k : k \in 0..(S.mNodeStates - 1) }
ArcSlot(S, q)  == { stateIDArc(S, q) + k : k \in 0..(S.mArcStates - 1) }

\* C15: after adds and erases of nodes and arcs followed by
\* refreshStateIDs, the slots [stateID, stateID + width) of the nodes and of
\* the arcs are pairwise disjoint and cover exactly [0, totalStates).
Thm_C15 ==
  (lastOp.op = "refreshStateIDs") =>
    /\ \A p1, p2 \in 1..nodeCount(graph) :
         p1 # p2 => NodeSlot(graph, p1) \cap NodeSlot(graph, p2) = {}
    /\ \A q1, q2 \in 1..arcCount(graph) :
         q1 # q2 => ArcSlot(graph, q1) \cap ArcSlot(graph, q2) = {}
    /\ \A p \in 1..nodeCount(graph), q \in 1..arcCount(graph) :
         NodeSlot(graph, p) \cap ArcSlot(graph, q) = {}
    /\ UNION ({ NodeSlot(graph, p) : p \in 1..nodeCount(graph) } \cup
              { ArcSlot(graph, q) : q \in 1..arcCount(graph) })
         = 0..(sysTotalStates(graph) - 1)

\* a refresh of a System with two nodes and two arcs, both widths positive,
\* after a node was erased
Wit_C15 ==
  /\ lastOp.op = "refreshStateIDs"
  /\ freedKeys # {}
  /\ nodeCount(graph) = 2 /\ arcCount(graph) = 2
  /\ graph.mNodeStates > 0 /\ graph.mArcStates > 0

\* C16: directly after an add or an erase of a node the node ids are tagged
\* invalid, and directly after an add or an erase of an arc (the erase of a
\* node with arcs included) the arc ids are tagged invalid.
Thm_C16 ==
  /\ lastOp.op \in {"addNode", "eraseNode"} =>
       (~graph.mValidNodeIDs /\ ~sysValidStateIDs(graph))
  /\ (\/ lastOp.op \in {"addArc", "addEdge", "eraseArc"}
      \/ (lastOp.op = "eraseNode" /\ lastOp.arg > 0)) =>
       (~graph.mValidArcIDs /\ ~sysValidStateIDs(graph))

\* an arc erased after a refresh: the arc left has an id beyond the count
Wit_C16 ==
  /\ lastOp.op = "eraseArc"
  /\ arcCount(graph) = 1
  /\ graph.arcs[1].id = 1

\* C17: after addNodeDynamic (addArcDynamic) the library maps the name of
\* the descriptor to that descriptor, also when the name was registered
\* before.
Claim_C17 ==
  /\ lastOp.op = "addNodeDynamic" =>
       graph.mNodeDynamics[lastOp.arg.name] = lastOp.arg
  /\ lastOp.op = "addArcDynamic" =>
       graph.mArcDynamics[lastOp.arg.name] = lastOp.arg

\* the largest getStates() of the descriptors of a library
MaxStatesOf(m) ==
  CHOOSE w \in { m[k].states : k \in DOMAIN m } :
    \A k \in DOMAIN m : m[k].states <= w

\* C18: after any sequence of addNodeDynamic, addArcDynamic, clear and
\* copySystem the node state width is the largest state count of the
\* descriptors held in the node library, and likewise for the arcs.
Claim_C18 ==
  /\ graph.mNodeStates = MaxStatesOf(graph.mNodeDynamics)
  /\ graph.mArcStates = MaxStatesOf(graph.mArcDynamics)

\* the keys of the nodes of a System
NodeKeys(S) == { S.nodes[p].key : p \in 1..nodeCount(S) }

\* C19: the keys of the nodes are pairwise distinct and smaller than
\* mNextKey, and a key freed by an erase is not the key of a node as long
\* as neither clear nor resetKeys restarts the keys.
Thm_C19 ==
  /\ \A p1, p2 \in 1..nodeCount(graph) :
       p1 # p2 => graph.nodes[p1].key # graph.nodes[p2].key
  /\ \A k \in NodeKeys(graph) : k < graph.mNextKey
  /\ NodeKeys(graph) \cap freedKeys = {}

\* a node added after an erase, next to an older node
Wit_C19 ==
  /\ lastOp.op = "addNode"
  /\ freedKeys # {}
  /\ nodeCount(graph) = 2

\* C20: openFromGML of a file written by saveToGML from a System G, into an
\* empty System that holds the same dynamics, gives as many nodes and arcs
\* as G has, and each node has the key, the label and the dynamics name it
\* has in G (the nodes taken in the order of the file).
Claim_C20 ==
  (lastOp.op = "openFromGML" /\ lastOp.arg.fresh) =>
    /\ nodeCount(other) = nodeCount(graph)
    /\ arcCount(other) = arcCount(graph)
    /\ \A p \in 1..nodeCount(graph) :
         LET v == Reverse(other.nodes)[p]
         IN  /\ v.key = graph.nodes[p].key
             /\ v.name = graph.nodes[p].name
             /\ v.dynamic.name = graph.nodes[p].dynamic.name

\* C21: openFromGML of a file whose node records name a dynamics that the
\* target has not registered does not return the success code 0, leaves no
\* node with the null descriptor and enters no unknown name in the registry.
Claim_C21 ==
  (lastOp.op = "openFromGML" /\ lastOp.arg.unknown # {}) =>
    /\ lastOp.arg.ret # 0
    /\ \A p \in 1..nodeCount(other) : other.nodes[p].dynamic # nullDyn
    /\ lastOp.arg.unknown \cap DOMAIN other.mNodeDynamics = {}

\* C22: after graph.copySystem(other) the graph has as many nodes and arcs
\* as other, the same registries, widths and next key; its nodes have the
\* keys, names and dynamics of the nodes of other, and the copy of each arc
\* of other joins the copies of its ends and has its dynamics.
Claim_C22 ==
  lastOp.op = "copySystem" =>
    /\ nodeCount(graph) = nodeCount(other)
    /\ arcCount(graph) = arcCount(other)
    /\ graph.mNodeDynamics = other.mNodeDynamics
    /\ graph.mArcDynamics = other.mArcDynamics
    /\ graph.mNodeStates = other.mNodeStates
    /\ graph.mArcStates = other.mArcStates
    /\ graph.mNextKey = other.mNextKey
    /\ \A p \in 1..nodeCount(other) :
         LET v == Reverse(graph.nodes)[p]
         IN  /\ v.key = other.nodes[p].key
             /\ v.name = other.nodes[p].name
             /\ v.dynamic = other.nodes[p].dynamic
    /\ \A q \in 1..arcCount(other) :
         LET e == ArcIt(other)[q]
             c == Reverse(graph.arcs)[q]
         IN  /\ c.u = NodePlace(other, e.u) - 1
             /\ c.v = NodePlace(other, e.v) - 1
             /\ c.dynamic = e.dynamic

\* C23: a hook called on a ChangeLogSet calls the same hook on each
\* registered sub-logger once, in registration order, reads no slot outside
\* the list, and returns.
Claim_C23 ==
  /\ setPc # "crashed"
  /\ \A k \in 1..Len(subCalls) : subCalls[k] = k - 1 /\ subCalls[k] < Len(mLoggers)
  /\ setPc = "returned" => Len(subCalls) = Len(mLoggers)

Claim_C26 ==
  (lastOp.op = "randomGraph" /\ lastOp.arg.undirected) =>
    \A u \in NodeHandles(graph), v \in NodeHandles(graph) :
      /\ Cardinality({q \in 1..arcCount(graph) :
                        graph.arcs[q].u = u /\ graph.arcs[q].v = v}) <= 1
      /\ HasArc(graph, u, v) <=> HasArc(graph, v, u)

\* C27: evolve calls the observer once before the bootstrap trials with
\* iteration 0, never during the bootstrap trials, and once for each trial of
\* the cooling loop, with the iteration numbers 1, 2, 3, ... in steps of
\* one, none above maxIterations.
Thm_C27 ==
  /\ [](obsCount >= 1 => (obsCall.t = obsCount - 1 /\ obsCall.t <= mParams.maxIterations))
  /\ []((pc = "start") <=> (obsCount = 0))
  /\ [](pc = "boot" => (obsCount = 1 /\ obsCall.t = 0))
  /\ [][BootTrial => obsCount' = obsCount]_vars
  /\ [][InnerTrial => (obsCount' = obsCount + 1 /\ obsCall'.t = obsCall.t + 1)]_vars
  /\ [][obsCount' # obsCount => (EvolveStart \/ InnerTrial)]_vars

\* a run with bootstrap trials whose cooling loop used the whole iteration
\* budget and stopped at the break
Wit_C27 ==
  /\ pc = "done"
  /\ mParams.initialTrials >= 1
  /\ mParams.maxIterations >= 2
  /\ iteration = mParams.maxIterations + 1
  /\ obsCount = mParams.maxIterations + 1
  /\ lastTrial.phase = "cool"

\* C28: after refreshStateIDs returns validStateIDs is true (and stays true
\* until the next structural change, so that a second simulate call on the
\* unmodified graph does not renumber again).
Claim_C28 == lastOp.op = "refreshStateIDs" => sysValidStateIDs(graph)

\* C29: a graph made by copySystem(from) stays usable after from is
\* destroyed: every descriptor a live System refers to in its registries, its
\* nodes or its arcs (NoNodeDynamic and NoArcDynamic included) is still
\* allocated, also across the clones evolve makes and discards.
Claim_C29 ==
  \A s \in Slots : objs[s].alive => Refs(objs, s) \subseteq liveDesc

\* C30: for every rejected trial of evolve the engine rolls the change log
\* back, so the lines that trial's mutation recorded are never written to the
\* sink by a later commit: every line in the sink was recorded by an accepted
\* trial.
Claim_C30 ==
  \A k \in 1..Len(mOut) : k <= Len(origin) => origin[k]

====
